---- MODULE Spec2Model ----
(***************************************************************************)
(* Model of the Kraken Futures fees-and-funding dashboard: the exchange    *)
(* (executions and account log, as the client queries them), the position  *)
(* lifecycle resolver, the accumulation engine in its two implementations, *)
(* the batch fan-out and the daily aggregator of the unified data service. *)
(*                                                                         *)
(* Units.  Timestamps are epoch milliseconds in the code; the model counts *)
(* whole seconds.  Quantities are multiples of the lot step 0.0001, so the *)
(* resolver's epsilon 0.0001 is 1.  Money is counted in mills (0.001 USD), *)
(* so round(x, 2) is a rounding to a multiple of 10.  A value that may be  *)
(* None is a sequence: <<>> is None, <<v>> is v.  A symbol is a sequence   *)
(* of characters.                                                          *)
(***************************************************************************)
EXTENDS Integers, Sequences, FiniteSets, TLC

VARIABLES
    now,          \* the clock, seconds
    before_incl,  \* whether the account-log endpoint's `before` bound is inclusive
    execs,        \* the exchange's execution events, oldest first
    logs,         \* the exchange's account log, oldest first
    steps,        \* exchange events and clock advances so far
    svc_cache,    \* UnifiedDataService._cache: cache key -> entry, <<>> when absent
    last_raw_logs, \* UnifiedDataService._last_raw_logs, <<>> before the first fetch
    ret           \* the client operation in progress or last made: what it did and returned

vars == <<now, before_incl, execs, logs, steps, svc_cache, last_raw_logs, ret>>
exchange == <<now, before_incl, execs, logs>>
service == <<svc_cache, last_raw_logs>>

---------------------------------------------------------------------------
\* Bounds of the model

MaxSteps == 3        \* exchange events and clock advances of one behaviour
PageLimit == 2       \* `limit` of get_account_logs (500 by default)
MaxDays == 3         \* `days` of a daily series

---------------------------------------------------------------------------
\* Program constants

SecondsPerDay == 24 * 60 * 60
CHUNK_DAYS == 30
MAX_LOOKBACK_DAYS == 730
ONE_YEAR_DAYS == 365
FALLBACK_DAYS == 30
EPSILON == 1
max_iterations == 10
CentMills == 10

---------------------------------------------------------------------------
\* Arithmetic and strings

None == <<>>
Some(v) == <<v>>

Abs(x) == IF x < 0 THEN -x ELSE x

\* round(n / d, 2) of a decimal amount given in mills: the nearest cent, a
\* tie going to the even cent.
Round2Div(n, d) ==
    LET q == n \div (CentMills * d)
        r == n % (CentMills * d)
    IN  IF 2 * r < CentMills * d THEN q * CentMills
        ELSE IF 2 * r > CentMills * d THEN (q + 1) * CentMills
        ELSE IF q % 2 = 0 THEN q * CentMills ELSE (q + 1) * CentMills

Round2(x) == Round2Div(x, 1)

\* str.upper(), on the characters the model uses
UpperChar(c) ==
    CASE c = "a" -> "A"
      [] c = "b" -> "B"
      [] OTHER -> c

Upper(s) == [i \in 1..Len(s) |-> UpperChar(s[i])]

\* `sub in s` of two strings
Contains(sub, s) ==
    \E i \in 0..(Len(s) - Len(sub)) : SubSeq(s, i + 1, i + Len(sub)) = sub

\* sum(s), by halves
RECURSIVE SumRange(_, _, _)
SumRange(s, lo, hi) ==
    IF lo > hi THEN 0
    ELSE IF lo = hi THEN s[lo]
    ELSE LET mid == (lo + hi) \div 2
         IN  SumRange(s, lo, mid) + SumRange(s, mid + 1, hi)

SumSeq(s) == SumRange(s, 1, Len(s))

FirstOfSeq(s) == s[1]

\* min(s)
RECURSIVE MinSeq(_)
MinSeq(s) ==
    IF Len(s) = 1 THEN s[1]
    ELSE LET m == MinSeq(Tail(s)) IN IF s[1] < m THEN s[1] ELSE m

Reverse(s) == [i \in 1..Len(s) |-> s[Len(s) + 1 - i]]

\* F(e), with e computed once: a local variable of the code
With(e, F(_)) == CHOOSE r \in {F(v) : v \in {e}} : TRUE

---------------------------------------------------------------------------
\* The exchange

SymA == <<"A">>
SymAB == <<"A", "B">>

\* The account log names a contract in lower case.
LogContract(sym) ==
    [i \in 1..Len(sym) |->
        CASE sym[i] = "A" -> "a" [] sym[i] = "B" -> "b" [] OTHER -> sym[i]]

TradePrice == 100
TradePriceAB == 120

\* The price a contract trades at
PriceOf(sym) == IF sym = SymAB THEN TradePriceAB ELSE TradePrice

Signed(e) == IF e.direction = "Sell" THEN -e.quantity ELSE e.quantity

\* The exchange's net position in a symbol
NetSize(ex, sym) ==
    SumSeq([i \in 1..Len(ex) |->
        IF ex[i].tradeable = sym THEN Signed(ex[i]) ELSE 0])

\* One fill: an execution event and the two account log rows it books, the
\* fee-bearing row and its zero-fee companion.
ExecutionOf(sym, dir, qty, fee, usd, uid) ==
    [timestamp |-> now, tradeable |-> sym, quantity |-> qty, direction |-> dir,
     uid |-> uid, usdValue |-> usd, price |-> PriceOf(sym), fee |-> fee]

TradeRow(sym, fee, uid) ==
    [date |-> now, info |-> "futures trade", contract |-> LogContract(sym),
     fee |-> Some(fee), realized_funding |-> None, funding_rate |-> None,
     trade_price |-> PriceOf(sym), execution |-> uid]

FundingRow(sym, amount) ==
    [date |-> now, info |-> "funding rate change", contract |-> LogContract(sym),
     fee |-> None, realized_funding |-> Some(amount), funding_rate |-> Some(1),
     trade_price |-> 0, execution |-> None]

NoCall == [op |-> "none"]

\* Each booking is stamped with the exchange's clock, which then moves on by
\* `tick` seconds: 0 when the next booking falls into the same second.
Trade(sym, dir, qty, fee, usd, tick) ==
    /\ steps < MaxSteps
    /\ steps' = steps + 1
    /\ LET uid == Len(execs) + 1
       IN  /\ execs' = Append(execs, ExecutionOf(sym, dir, qty, fee, usd, uid))
           /\ logs' = logs \o <<TradeRow(sym, fee, Some(uid)),
                                TradeRow(sym, 0, Some(uid))>>
    /\ now' = now + tick
    /\ ret' = NoCall
    /\ UNCHANGED <<before_incl, service>>

Funding(sym, amount, tick) ==
    /\ steps < MaxSteps
    /\ steps' = steps + 1
    /\ logs' = Append(logs, FundingRow(sym, amount))
    /\ now' = now + tick
    /\ ret' = NoCall
    /\ UNCHANGED <<before_incl, execs, service>>

Advance(dt) ==
    /\ steps < MaxSteps
    /\ steps' = steps + 1
    /\ now' = now + dt
    /\ ret' = NoCall
    /\ UNCHANGED <<before_incl, execs, logs, service>>

\* GET /api/history/v3/executions: the events with since <= timestamp <= before,
\* oldest first.
ExecutionsPage(since, before) ==
    SelectSeq(execs, LAMBDA e : since <= e.timestamp /\ e.timestamp <= before)

\* GET /api/history/v3/account-log: the entries with since <= date and date
\* before the `before` bound, newest first, at most `limit` of them.  Whether
\* an entry dated exactly `before` is served is the exchange's choice.
AccountLogPage(since, before, limit) ==
    LET inRange == SelectSeq(logs, LAMBDA l :
                       /\ since <= l.date
                       /\ IF before_incl THEN l.date <= before ELSE l.date < before)
        newest == Reverse(inRange)
    IN  SubSeq(newest, 1, IF Len(newest) < limit THEN Len(newest) ELSE limit)

---------------------------------------------------------------------------
\* kraken_client.get_account_logs: timestamp-cursor pagination

RECURSIVE Paginate(_, _, _, _, _)
Paginate(since, current_before, limit, all_logs, iteration) ==
    IF iteration >= max_iterations
    THEN [logs |-> all_logs, requests |-> iteration]
    ELSE LET page == AccountLogPage(since, current_before, limit)
             done == [logs |-> all_logs \o page, requests |-> iteration + 1]
         IN  IF page = <<>>
             THEN [logs |-> all_logs, requests |-> iteration + 1]
             ELSE IF Len(page) < limit \/ limit = 1 THEN done
             ELSE LET new_before == page[Len(page)].date
                  IN  IF new_before >= current_before THEN done
                      ELSE Paginate(since, new_before, limit, all_logs \o page,
                                    iteration + 1)

get_account_logs(since_ts, before_ts, limit) ==
    Paginate(since_ts, before_ts, limit, <<>>, 0)

\* kraken_client.get_execution_events: the exchange serves the range in one
\* page, without a continuation token.
get_execution_events(since_ts, before_ts) ==
    [events |-> ExecutionsPage(since_ts, before_ts), requests |-> 1]

---------------------------------------------------------------------------
\* kraken_client.find_true_position_open_time

LowerDir(d) ==
    CASE d = "Buy" -> "buy"
      [] d = "Sell" -> "sell"
      [] OTHER -> d

\* The (timestamp, signed quantity) pairs of the chunk's executions of the symbol
SymbolExecutions(chunk, position_symbol) ==
    LET match == SelectSeq(chunk, LAMBDA e :
                     Upper(e.tradeable) = Upper(position_symbol) /\ e.quantity # 0)
    IN  [i \in 1..Len(match) |->
            <<match[i].timestamp,
              IF LowerDir(match[i].direction) = "sell"
              THEN -match[i].quantity ELSE match[i].quantity>>]

\* list.sort(key=timestamp, reverse=True): newest first, equal timestamps in
\* the order they had
InsertDesc(sorted, x) ==
    LET k == Cardinality({i \in 1..Len(sorted) : sorted[i][1] >= x[1]})
    IN  SubSeq(sorted, 1, k) \o <<x>> \o SubSeq(sorted, k + 1, Len(sorted))

RECURSIVE SortDescInto(_, _)
SortDescInto(s, acc) ==
    IF s = <<>> THEN acc ELSE SortDescInto(Tail(s), InsertDesc(acc, Head(s)))

SortNewestFirst(s) == SortDescInto(s, <<>>)

\* The walk over one chunk: undo each execution, stop at the first one that
\* leaves |net_position| below epsilon.
RECURSIVE UndoExecutions(_, _)
UndoExecutions(s, net_position) ==
    IF s = <<>> THEN [found |-> FALSE, ts |-> 0, net |-> net_position]
    ELSE LET n == net_position - s[1][2]
         IN  IF Abs(n) < EPSILON THEN [found |-> TRUE, ts |-> s[1][1], net |-> n]
             ELSE UndoExecutions(Tail(s), n)

RECURSIVE SearchChunks(_, _, _, _, _, _)
SearchChunks(position_symbol, net_position, all_ts, end_chunk_ts, chunk_num, current_ts) ==
    IF chunk_num >= MAX_LOOKBACK_DAYS \div CHUNK_DAYS
    THEN [ts |-> IF all_ts # <<>> THEN MinSeq(all_ts)
                 ELSE current_ts - FALLBACK_DAYS * SecondsPerDay,
          requests |-> chunk_num]
    ELSE LET start_chunk_ts == end_chunk_ts - CHUNK_DAYS * SecondsPerDay
             symbol_executions ==
                 SortNewestFirst(SymbolExecutions(
                     get_execution_events(start_chunk_ts, end_chunk_ts).events,
                     position_symbol))
             walk == UndoExecutions(symbol_executions, net_position)
         IN  IF walk.found THEN [ts |-> walk.ts, requests |-> chunk_num + 1]
             ELSE SearchChunks(position_symbol, walk.net,
                      all_ts \o [i \in 1..Len(symbol_executions) |->
                                    symbol_executions[i][1]],
                      start_chunk_ts, chunk_num + 1, current_ts)

find_true_position_open_time(position_symbol, position_size, current_ts) ==
    SearchChunks(position_symbol, position_size, <<>>, current_ts, 0, current_ts)

---------------------------------------------------------------------------
\* The accumulation engine

\* A position as a caller hands it over: symbol ("" when missing), signed
\* size (0 when missing), entry price.
Position(symbol, size) == [symbol |-> symbol, size |-> size, price |-> PriceOf(symbol)]

ErrorResult ==
    [accumulated_funding |-> 0, accumulated_fees |-> 0, data_is_capped |-> FALSE,
     error |-> TRUE, true_opened_ts |-> None]

\* What one accumulation did besides returning: resolver invocations,
\* upstream requests, the start of the window it asked the log stream for.
Outcome(result, resolver_calls, requests, fetch_from) ==
    [result |-> result, resolver_calls |-> resolver_calls, requests |-> requests,
     fetch_from |-> fetch_from]

MissingSymbolAndSize(symbol, position_size) == symbol = <<>> /\ position_size = 0

\* `if not symbol or position_size == 0`
MissingSymbolOrSize(symbol, position_size) == symbol = <<>> \/ position_size = 0

\* The size handed to the resolver
ResolverSize(position) == Abs(position.size)

CapWindowInclusive(true_opened_ts, current_ts) ==
    LET ONE_YEAR_AGO_TS == current_ts - ONE_YEAR_DAYS * SecondsPerDay
    IN  IF true_opened_ts <= ONE_YEAR_AGO_TS
        THEN [fetch_from_ts |-> ONE_YEAR_AGO_TS, data_is_capped |-> TRUE]
        ELSE [fetch_from_ts |-> true_opened_ts, data_is_capped |-> FALSE]

\* The one-year cap of the fetch window
CapWindow(true_opened_ts, current_ts) ==
    LET ONE_YEAR_AGO_TS == current_ts - ONE_YEAR_DAYS * SecondsPerDay
    IN  IF true_opened_ts < ONE_YEAR_AGO_TS
        THEN [fetch_from_ts |-> ONE_YEAR_AGO_TS, data_is_capped |-> TRUE]
        ELSE [fetch_from_ts |-> true_opened_ts, data_is_capped |-> FALSE]

\* kraken_client.get_position_accumulated_data, the funding loop
ClientFundingTerm(log, symbol, true_opened_ts) ==
    IF /\ log.funding_rate # None
       /\ log.realized_funding # None
       /\ ~(log.date < true_opened_ts)
       /\ Contains(symbol, Upper(log.contract))
    THEN Abs(log.realized_funding[1])
    ELSE 0

\* kraken_client.get_position_accumulated_data, the fee loop over the
\* execution events
ClientFeeTerm(execution, symbol, true_opened_ts) ==
    IF /\ ~(execution.timestamp < true_opened_ts)
       /\ Upper(execution.tradeable) = symbol
       /\ Abs(execution.fee) > 0
    THEN Abs(execution.fee)
    ELSE 0

\* kraken_client.get_position_accumulated_data.  `fail` is where the upstream
\* fails, if it does: in the resolver's requests or in the two fetches.
get_position_accumulated_data(position, fail) ==
    LET current_ts == now
        symbol == Upper(position.symbol)
        position_size == ResolverSize(position)
    IN  IF MissingSymbolOrSize(symbol, position_size)
        THEN Outcome(ErrorResult, 0, 0, None)
        ELSE IF fail = "resolver"
        THEN Outcome(ErrorResult, 1, 1, None)
        ELSE
        With(find_true_position_open_time(symbol, position_size, current_ts),
             LAMBDA opened :
        With(CapWindow(opened.ts, current_ts), LAMBDA window :
        IF fail = "fetch"
        THEN Outcome(ErrorResult, 1, opened.requests + 1, Some(window.fetch_from_ts))
        ELSE
        With(get_account_logs(window.fetch_from_ts, current_ts, PageLimit),
             LAMBDA fetched :
        With(get_execution_events(window.fetch_from_ts, current_ts),
             LAMBDA events :
        LET true_opened_ts == opened.ts
            all_account_logs == fetched.logs
            all_execution_events == events.events
            accumulated_funding ==
                SumSeq([i \in 1..Len(all_account_logs) |->
                    ClientFundingTerm(all_account_logs[i], symbol, true_opened_ts)])
            accumulated_fees ==
                SumSeq([i \in 1..Len(all_execution_events) |->
                    ClientFeeTerm(all_execution_events[i], symbol, true_opened_ts)])
        IN  Outcome([accumulated_funding |-> Round2(accumulated_funding),
                     accumulated_fees |-> Round2(accumulated_fees),
                     data_is_capped |-> window.data_is_capped,
                     error |-> FALSE,
                     true_opened_ts |-> Some(true_opened_ts)],
                    1, opened.requests + fetched.requests + events.requests,
                    Some(window.fetch_from_ts))))))

---------------------------------------------------------------------------
\* unified_data_service.UnifiedDataService

cache_ttl == 300
MAKER_RATE_INV == 10000     \* 1 / 0.0001, the assumed maker fee rate

DayOf(ts) == ts \div SecondsPerDay

EmptyBucket == [fees |-> 0, funding |-> 0, volume |-> 0, trade_count |-> 0]

\* exec_map: execution uid -> execution, of the events that carry a uid
ExecMap(events) ==
    [u \in {events[i].uid : i \in {j \in 1..Len(events) : events[j].uid # 0}} |->
        LET i == CHOOSE j \in 1..Len(events) :
                     /\ events[j].uid = u
                     /\ \A k \in (j + 1)..Len(events) : events[k].uid # u
        IN  events[i]]

\* The USD volume the aggregator attributes to one trade row, and whether the
\* row's execution id is new to processed_executions.
RowIsFirstOfExecution(exec_id, processed_executions) ==
    exec_id # None /\ exec_id[1] \notin processed_executions

RowVolume(log, fee_amount, exec_map, processed_executions) ==
    LET exec_id == log.execution
        matched == exec_id # None /\ exec_id[1] \in DOMAIN exec_map
        looked_up ==
            IF RowIsFirstOfExecution(exec_id, processed_executions) /\ matched
            THEN exec_map[exec_id[1]].usdValue
            ELSE 0
    IN  IF looked_up = 0 /\ log.trade_price # 0 /\ fee_amount > 0 /\ ~matched
        THEN fee_amount * MAKER_RATE_INV
        ELSE looked_up

RowQuantity(log, fee_amount, exec_map, processed_executions) ==
    LET exec_id == log.execution
        matched == exec_id # None /\ exec_id[1] \in DOMAIN exec_map
        first == RowIsFirstOfExecution(exec_id, processed_executions) /\ matched
        looked_up == IF first THEN exec_map[exec_id[1]].usdValue ELSE 0
    IN  IF looked_up = 0 /\ log.trade_price # 0 /\ fee_amount > 0 /\ ~matched
        THEN Some((fee_amount * MAKER_RATE_INV) \div log.trade_price)
        ELSE IF first THEN Some(Abs(exec_map[exec_id[1]].quantity)) ELSE None

\* One iteration of the loop over the logs.  st is the loop's state:
\* daily_data, trades_list, processed_executions.
ProcessLog(st, log, exec_map) ==
    LET day_key == DayOf(log.date)
        bucket == IF day_key \in DOMAIN st.daily_data
                  THEN st.daily_data[day_key] ELSE EmptyBucket
        put(b) == [d \in DOMAIN st.daily_data \cup {day_key} |->
                      IF d = day_key THEN b ELSE st.daily_data[d]]
    IN  IF log.info = "funding rate change"
        THEN [st EXCEPT !.daily_data =
                 put(IF log.realized_funding # None
                     THEN [bucket EXCEPT !.funding = @ + Abs(log.realized_funding[1])]
                     ELSE bucket)]
        ELSE IF log.info = "futures trade" /\ log.fee # None
        THEN LET fee_amount == Abs(log.fee[1])
                 counted == IF fee_amount > 0
                            THEN [bucket EXCEPT !.fees = @ + fee_amount,
                                                !.trade_count = @ + 1]
                            ELSE bucket
                 usd_volume == RowVolume(log, fee_amount, exec_map,
                                         st.processed_executions)
                 quantity == RowQuantity(log, fee_amount, exec_map,
                                         st.processed_executions)
             IN  [daily_data |->
                      put(IF usd_volume > 0
                          THEN [counted EXCEPT !.volume = @ + usd_volume]
                          ELSE counted),
                  trades_list |-> Append(st.trades_list,
                      [timestamp |-> log.date, contract |-> log.contract,
                       fee |-> fee_amount, trade_price |-> log.trade_price,
                       quantity |-> quantity, usd_volume |-> usd_volume,
                       execution_id |-> log.execution]),
                  processed_executions |->
                      IF RowIsFirstOfExecution(log.execution, st.processed_executions)
                      THEN st.processed_executions \cup {log.execution[1]}
                      ELSE st.processed_executions]
        ELSE [st EXCEPT !.daily_data = put(bucket)]

RECURSIVE ProcessLogs(_, _, _)
ProcessLogs(st, ls, exec_map) ==
    IF ls = <<>> THEN st
    ELSE With(ProcessLog(st, Head(ls), exec_map), LAMBDA next_st :
             ProcessLogs(next_st, Tail(ls), exec_map))

DailySeriesOfActiveDays(daily_data, days, current_ts) ==
    LET current_date == DayOf(current_ts)
        start_date == current_date - (days - 1)
        active == SelectSeq([i \in 1..days |-> start_date + (i - 1)],
                            LAMBDA date : date \in DOMAIN daily_data)
    IN  [i \in 1..Len(active) |->
            LET data == daily_data[active[i]]
            IN  [date |-> active[i], fees |-> Round2(data.fees),
                 funding |-> Round2(data.funding),
                 volume |-> Round2(data.volume),
                 trade_count |-> data.trade_count]]

\* The complete daily series: `days` buckets ending at the current UTC date
DailySeries(daily_data, days, current_ts) ==
    LET current_date == DayOf(current_ts)
        start_date == current_date - (days - 1)
    IN  [i \in 1..days |->
            LET date == start_date + (i - 1)
                data == IF date \in DOMAIN daily_data
                        THEN daily_data[date] ELSE EmptyBucket
            IN  [date |-> date, fees |-> Round2(data.fees),
                 funding |-> Round2(data.funding),
                 volume |-> Round2(data.volume),
                 trade_count |-> data.trade_count]]

Summary(daily_series, days) ==
    LET total_fees == SumSeq([i \in 1..Len(daily_series) |-> daily_series[i].fees])
        total_funding == SumSeq([i \in 1..Len(daily_series) |-> daily_series[i].funding])
        total_volume == SumSeq([i \in 1..Len(daily_series) |-> daily_series[i].volume])
        total_trades == SumSeq([i \in 1..Len(daily_series) |-> daily_series[i].trade_count])
    IN  [total_fees |-> Round2(total_fees), total_funding |-> Round2(total_funding),
         total_volume |-> Round2(total_volume), total_trades |-> total_trades,
         total_cost |-> Round2(total_fees + total_funding),
         avg_daily_fees |-> IF days > 0 THEN Round2Div(total_fees, days) ELSE 0,
         avg_daily_funding |-> IF days > 0 THEN Round2Div(total_funding, days) ELSE 0]

\* trades_list.sort(key=timestamp): oldest first, equal timestamps in the
\* order they had
InsertAsc(sorted, x) ==
    LET k == Cardinality({i \in 1..Len(sorted) : sorted[i].timestamp <= x.timestamp})
    IN  SubSeq(sorted, 1, k) \o <<x>> \o SubSeq(sorted, k + 1, Len(sorted))

RECURSIVE SortTradesInto(_, _)
SortTradesInto(s, acc) ==
    IF s = <<>> THEN acc ELSE SortTradesInto(Tail(s), InsertAsc(acc, Head(s)))

\* UnifiedDataService._fetch_and_process_data, given the fetched logs.
\* exec_fail: the execution events could not be fetched (exec_map stays empty).
ProcessData(raw_logs, days, exec_fail, current_ts) ==
    LET start_ts == current_ts - days * SecondsPerDay
    IN  With(IF exec_fail THEN <<>>
             ELSE ExecMap(get_execution_events(start_ts, current_ts).events),
             LAMBDA exec_map :
        With(ProcessLogs([daily_data |-> <<>>, trades_list |-> <<>>,
                          processed_executions |-> {}], raw_logs, exec_map),
             LAMBDA st :
        With(DailySeries(st.daily_data, days, current_ts), LAMBDA daily_series :
            [daily_data |-> daily_series,
             trades |-> SortTradesInto(st.trades_list, <<>>),
             summary |-> Summary(daily_series, days),
             period_days |-> days,
             last_updated |-> current_ts])))

\* UnifiedDataService._fetch_and_process_data: the data, whether it raised,
\* the upstream requests it sent and the logs it keeps as _last_raw_logs.
\* fail: "logs" when the account-log fetch fails, "execs" when only the
\* execution events fetch fails.
fetch_and_process_data(days, fail, current_ts) ==
    IF fail = "logs"
    THEN [raised |-> TRUE, data |-> <<>>, requests |-> 1, raw |-> None]
    ELSE
    With(get_account_logs(current_ts - days * SecondsPerDay, current_ts, PageLimit),
         LAMBDA fetched :
    With(ProcessData(fetched.logs, days, fail = "execs", current_ts),
         LAMBDA processed_data :
        [raised |-> FALSE, data |-> processed_data,
         requests |-> fetched.requests + 1, raw |-> Some(fetched.logs)]))

ApiKey == <<"k", "e", "y">>

\* _get_cache_key: the first 8 characters of the API key
cache_key(api_key) == SubSeq(api_key, 1, IF Len(api_key) < 8 THEN Len(api_key) ELSE 8)

\* _is_cache_valid
is_cache_valid(cache_entry, current_ts) ==
    cache_entry # <<>> /\ current_ts - cache_entry.timestamp < cache_ttl

\* _filter_to_days
filter_to_days(full_data, days) ==
    IF full_data.period_days = days THEN full_data
    ELSE LET n == Len(full_data.daily_data)
             filtered_daily == IF days < n
                               THEN SubSeq(full_data.daily_data, n - days + 1, n)
                               ELSE full_data.daily_data
         IN  [daily_data |-> filtered_daily,
              trades |-> full_data.trades,
              summary |-> Summary(filtered_daily, days),
              period_days |-> days,
              last_updated |-> full_data.last_updated]

\* get_processed_data on service state (cache, raw): what it returns, whether
\* it raised, how many upstream requests it sent and the service state it
\* leaves.
get_processed_data(cache, raw, api_key, days, fail, current_ts) ==
    LET key == cache_key(api_key)
        cache_entry == IF key \in DOMAIN cache THEN cache[key] ELSE <<>>
    IN  IF is_cache_valid(cache_entry, current_ts) /\ cache_entry.days >= days
        THEN [raised |-> FALSE, data |-> filter_to_days(cache_entry.data, days),
              requests |-> 0, cache |-> cache, raw |-> raw]
        ELSE
        With(fetch_and_process_data(days, fail, current_ts), LAMBDA fetched :
            IF fetched.raised
            THEN [raised |-> TRUE, data |-> <<>>, requests |-> fetched.requests,
                  cache |-> cache, raw |-> raw]
            ELSE [raised |-> FALSE, data |-> fetched.data,
                  requests |-> fetched.requests,
                  cache |-> [k \in DOMAIN cache \cup {key} |->
                                IF k = key
                                THEN [data |-> fetched.data,
                                      timestamp |-> current_ts, days |-> days]
                                ELSE cache[k]],
                  raw |-> fetched.raw])

ENTRY_TYPE_FUNDING_RATE_CHANGE == "funding rate change"

\* get_raw_logs without an entry_type filter
get_raw_logs(cache, raw, api_key, since_ts, before_ts, fail, current_ts) ==
    LET whole_days == (current_ts - since_ts) \div SecondsPerDay + 1
        days_needed == IF whole_days < 1 THEN 1 ELSE whole_days
    IN  With(get_processed_data(cache, raw, api_key, days_needed, fail, current_ts),
             LAMBDA got :
            IF got.raised THEN [got EXCEPT !.data = <<>>]
            ELSE [got EXCEPT !.data =
                     SelectSeq(got.raw[1], LAMBDA l :
                         since_ts <= l.date /\ l.date <= before_ts)])

\* routes/positions.get_position_accumulated_data_cached, the loop over the logs
CachedMatches(log, symbol) ==
    log.contract # <<>> /\ Contains(symbol, Upper(log.contract))

CachedFundingTerm(log, symbol) ==
    IF /\ CachedMatches(log, symbol)
       /\ log.info = ENTRY_TYPE_FUNDING_RATE_CHANGE
       /\ log.realized_funding # None
    THEN log.realized_funding[1]
    ELSE 0

CachedFeeTerm(log, symbol) ==
    IF /\ CachedMatches(log, symbol)
       /\ log.info # ENTRY_TYPE_FUNDING_RATE_CHANGE
       /\ log.info = "futures trade"
       /\ log.fee # None
    THEN Abs(log.fee[1])
    ELSE 0

\* routes/positions.get_position_accumulated_data_cached: the outcome and
\* the service state it leaves
get_position_accumulated_data_cached(position, fail) ==
    LET current_ts == now
        symbol == Upper(position.symbol)
        position_size == ResolverSize(position)
        same == [cache |-> svc_cache, raw |-> last_raw_logs]
    IN  IF MissingSymbolOrSize(symbol, position_size)
        THEN [out |-> Outcome(ErrorResult, 0, 0, None)] @@ same
        ELSE IF fail = "resolver"
        THEN [out |-> Outcome(ErrorResult, 1, 1, None)] @@ same
        ELSE
        With(find_true_position_open_time(symbol, position_size, current_ts),
             LAMBDA opened :
        With(CapWindow(opened.ts, current_ts), LAMBDA window :
        With(get_raw_logs(svc_cache, last_raw_logs, ApiKey, window.fetch_from_ts,
                          current_ts, IF fail = "fetch" THEN "logs" ELSE "none",
                          current_ts), LAMBDA got :
        LET all_logs == got.data
            accumulated_funding ==
                SumSeq([i \in 1..Len(all_logs) |-> CachedFundingTerm(all_logs[i], symbol)])
            accumulated_fees ==
                SumSeq([i \in 1..Len(all_logs) |-> CachedFeeTerm(all_logs[i], symbol)])
        IN  [out |->
                IF got.raised
                THEN Outcome(ErrorResult, 1, opened.requests + got.requests,
                             Some(window.fetch_from_ts))
                ELSE Outcome([accumulated_funding |-> Round2(accumulated_funding),
                              accumulated_fees |-> Round2(accumulated_fees),
                              data_is_capped |-> window.data_is_capped,
                              error |-> FALSE,
                              true_opened_ts |-> Some(opened.ts)],
                             1, opened.requests + got.requests,
                             Some(window.fetch_from_ts)),
             cache |-> got.cache, raw |-> got.raw])))

---------------------------------------------------------------------------
\* kraken_client.batch_get_position_accumulated_data

\* What the exchange reports as open positions: every symbol with a net size
OpenPositions ==
    LET syms == <<SymA, SymAB>>
        open == SelectSeq(syms, LAMBDA sym : NetSize(execs, sym) # 0)
    IN  [i \in 1..Len(open) |-> Position(open[i], NetSize(execs, open[i]))]

\* The entry appended for one completed future: the worker's result with the
\* position's symbol and size.  index is the position's place in the input.
BatchEntry(index, position, result) ==
    [index |-> index, symbol |-> position.symbol, size |-> position.size] @@ result

BatchCollectCompleted(positions, fails, order) ==
    LET done == SelectSeq(order, LAMBDA i : fails[i] = "none")
    IN  [k \in 1..Len(done) |->
            BatchEntry(done[k], positions[done[k]],
                       get_position_accumulated_data(positions[done[k]],
                                                     fails[done[k]]).result)]

\* results after the futures completed in the order `order`
BatchCollect(positions, fails, order) ==
    [k \in 1..Len(order) |->
        BatchEntry(order[k], positions[order[k]],
                   get_position_accumulated_data(positions[order[k]],
                                                 fails[order[k]]).result)]

CompletionOrders(n) ==
    {p \in [1..n -> 1..n] : \A i, j \in 1..n : i # j => p[i] # p[j]}

---------------------------------------------------------------------------
\* The specification of the accumulation engine

Epoch == 1000 * SecondsPerDay

Fails == {"none", "resolver", "fetch"}
\* A worker of the batch fails or does not: where it fails is lost in the batch
BatchFails == {"none", "fetch"}

\* The positions a caller may hand over: the open ones, and two that lack a
\* symbol or a size.
CallerPositions ==
    {OpenPositions[i] : i \in 1..Len(OpenPositions)}
        \cup {Position(<<>>, 1), Position(SymA, 0)}

\* A request arrives after the exchange booked what it holds.
Quiet ==
    /\ \A i \in 1..Len(logs) : logs[i].date < now
    /\ \A i \in 1..Len(execs) : execs[i].timestamp < now

\* Calls are made one after the other, and a stateless call leaves the program
\* where it was: the next call starts from a state no stateless reply is held in.
Settled == ret.op \in {"none", "cached"}

AccumulateClient(position, fail) ==
    /\ Quiet
    /\ Settled
    /\ ret' = [op |-> "client", position |-> position, fail |-> fail,
               out |-> get_position_accumulated_data(position, fail)]
    /\ UNCHANGED <<exchange, steps, service>>

AccumulateCached(position, fail) ==
    /\ Quiet
    /\ Settled
    /\ steps < MaxSteps
    /\ steps' = steps + 1
    /\ \E r \in {get_position_accumulated_data_cached(position, fail)} :
           /\ ret' = [op |-> "cached", position |-> position, fail |-> fail,
                      out |-> r.out]
           /\ svc_cache' = r.cache
           /\ last_raw_logs' = r.raw
    /\ UNCHANGED exchange

Batch(fails, order) ==
    /\ Quiet
    /\ Settled
    /\ OpenPositions # <<>>
    /\ ret' = [op |-> "batch", positions |-> OpenPositions, fails |-> fails,
               results |-> BatchCollect(OpenPositions, fails, order)]
    /\ UNCHANGED <<exchange, steps, service>>

Init ==
    /\ now = Epoch
    /\ before_incl \in BOOLEAN
    /\ execs = <<>>
    /\ logs = <<>>
    /\ steps = 0
    /\ svc_cache = <<>>
    /\ last_raw_logs = None
    /\ ret = NoCall

TradeA == \E dir \in {"Buy", "Sell"}, qty \in {1, 2} : Trade(SymA, dir, qty, 4, 0, 1)
TradeAB == Trade(SymAB, "Buy", 1, 13, 0, 1)
FundingA == \E amount \in {-7, 3} : Funding(SymA, amount, 1)
\* A year passes, less the second the last booking took or not
Elapse ==
    \E dt \in {ONE_YEAR_DAYS * SecondsPerDay - 1, ONE_YEAR_DAYS * SecondsPerDay} :
        Advance(dt)
CallClient == \E p \in CallerPositions, f \in Fails : AccumulateClient(p, f)
CallCached == \E p \in CallerPositions, f \in Fails : AccumulateCached(p, f)
CallBatch ==
    \E order \in CompletionOrders(Len(OpenPositions)) :
        \E fails \in [1..Len(OpenPositions) -> BatchFails] : Batch(fails, order)

Next ==
    \/ TradeA
    \/ TradeAB
    \/ FundingA
    \/ Elapse
    \/ CallClient
    \/ CallCached
    \/ CallBatch

Spec == Init /\ [][Next]_vars

---------------------------------------------------------------------------
\* The specification of the daily aggregator

FetchAndProcess(days, fail) ==
    /\ Quiet
    /\ \E r \in {fetch_and_process_data(days, fail, now)} :
           /\ ret' = [op |-> "daily", days |-> days, fail |-> fail,
                      raised |-> r.raised, data |-> r.data,
                      fed |-> IF r.raised THEN <<>> ELSE r.raw[1]]
           /\ last_raw_logs' = IF r.raised THEN last_raw_logs ELSE r.raw
    /\ UNCHANGED <<exchange, steps, svc_cache>>

UsdNotional == 250000

\* A fill of one cent of fee, its USD notional reported or not, the next
\* booking in the same second or not
FillA ==
    \E usd \in {0, UsdNotional}, tick \in {0, 1} : Trade(SymA, "Buy", 1, CentMills, usd, tick)
FundingTick == \E tick \in {0, 1} : Funding(SymA, -7, tick)
NextDay == Advance(SecondsPerDay)
Aggregate ==
    \E days \in 1..MaxDays, fail \in {"none", "execs", "logs"} :
        FetchAndProcess(days, fail)

NextDaily ==
    \/ FillA
    \/ FundingTick
    \/ NextDay
    \/ Aggregate

SpecDaily == Init /\ [][NextDaily]_vars

---------------------------------------------------------------------------
\* What the exchange holds, for the statements below

\* The executions of a symbol, oldest first
ExecutionsOfSymbol(sym) == SelectSeq(execs, LAMBDA e : Upper(e.tradeable) = Upper(sym))

\* The exchange's net size in the symbol after its first k executions
NetAfter(sym, k) ==
    SumSeq([i \in 1..k |-> Signed(ExecutionsOfSymbol(sym)[i])])

\* The position was opened from flat and has kept its side since
OpenedFromFlat(sym) ==
    LET n == Len(ExecutionsOfSymbol(sym))
    IN  /\ NetAfter(sym, n) # 0
        /\ \A k \in 1..n : NetAfter(sym, k) * NetAfter(sym, n) >= 0

\* The timestamp of the trade that opened the current position from flat
OpeningTradeTime(sym) ==
    LET mine == ExecutionsOfSymbol(sym)
        flat == {k \in 1..Len(mine) : NetAfter(sym, k - 1) = 0}
        last == CHOOSE k \in flat : \A j \in flat : j <= k
    IN  mine[last].timestamp

\* The account log entries the exchange holds from since_ts on
HeldLogs(since_ts) == SelectSeq(logs, LAMBDA l : since_ts <= l.date /\ l.date <= now)

Occurrences(s, x) == Cardinality({i \in 1..Len(s) : s[i] = x})

SameEntries(a, b) ==
    /\ Len(a) = Len(b)
    /\ \A i \in 1..Len(a) : Occurrences(a, a[i]) = Occurrences(b, a[i])

\* The reply held is that of an accumulation that went through
Accumulated == ret.op \in {"client", "cached"} /\ ~ret.out.result.error

\* The account log entries the accumulation read for its window
LogsRead ==
    IF ret.op = "client"
    THEN get_account_logs(ret.out.fetch_from[1], now, PageLimit).logs
    ELSE SelectSeq(last_raw_logs[1], LAMBDA l :
             ret.out.fetch_from[1] <= l.date /\ l.date <= now)

\* The accumulation read every entry the exchange holds for its window, once
ReadWholeWindow == SameEntries(LogsRead, HeldLogs(ret.out.fetch_from[1]))

SignedFundingHeld(symbol, since_ts) ==
    LET held == HeldLogs(since_ts)
    IN  SumSeq([i \in 1..Len(held) |->
            IF /\ held[i].info = "funding rate change"
               /\ Upper(held[i].contract) = Upper(symbol)
            THEN held[i].realized_funding[1] ELSE 0])

AbsFeesHeld(symbol, since_ts) ==
    LET held == HeldLogs(since_ts)
    IN  SumSeq([i \in 1..Len(held) |->
            IF /\ held[i].info = "futures trade"
               /\ Upper(held[i].contract) = Upper(symbol)
            THEN Abs(held[i].fee[1]) ELSE 0])

---------------------------------------------------------------------------
\* C1: the open time get_position_accumulated_data obtains from
\* find_true_position_open_time is the timestamp of the trade that opened the
\* current position from flat, for a long and for a short position, when that
\* trade lies within the resolver's lookback.
C1_OpenTimeIsOpeningTrade ==
    (/\ ret.op = "client"
     /\ ~ret.out.result.error
     /\ OpenedFromFlat(ret.position.symbol)
     /\ OpeningTradeTime(ret.position.symbol)
            > now - (MAX_LOOKBACK_DAYS \div CHUNK_DAYS) * CHUNK_DAYS * SecondsPerDay)
    => ret.out.result.true_opened_ts = Some(OpeningTradeTime(ret.position.symbol))

\* C2: in both implementations the window starts at T - 365 days with
\* data_is_capped true exactly when the resolved open time is earlier than
\* T - 365 days, and at the open time with data_is_capped false otherwise.
C2_WindowCappedAtOneYear ==
    Accumulated =>
        LET opened == ret.out.result.true_opened_ts[1]
            year_ago == now - ONE_YEAR_DAYS * SecondsPerDay
        IN  IF opened < year_ago
            THEN ret.out.fetch_from = Some(year_ago) /\ ret.out.result.data_is_capped
            ELSE ret.out.fetch_from = Some(opened) /\ ~ret.out.result.data_is_capped

C2_Witness ==
    /\ Accumulated
    /\ ret.op = "cached"
    /\ ret.out.result.data_is_capped
    /\ ret.out.fetch_from = Some(now - ONE_YEAR_DAYS * SecondsPerDay)

\* C3: in every implementation accumulated_funding is the signed sum of the
\* realized_funding of the position's funding entries in the window (to the
\* cent), whenever the window was read whole.
C3_FundingIsSignedSum ==
    (Accumulated /\ ReadWholeWindow) =>
        ret.out.result.accumulated_funding
            = Round2(SignedFundingHeld(ret.position.symbol, ret.out.fetch_from[1]))

\* C4: accumulated_fees is the sum of the absolute fees of exactly the trade
\* entries whose contract equals the position's symbol, case aside, dated at
\* or after the window start (to the cent), whenever the window was read whole.
C4_FeesOfExactlyTheSymbol ==
    (Accumulated /\ ReadWholeWindow) =>
        ret.out.result.accumulated_fees
            = Round2(AbsFeesHeld(ret.position.symbol, ret.out.fetch_from[1]))

\* C5: a position without a symbol or of size zero is answered at once, with
\* funding 0, fees 0, data_is_capped false and an error, without a call of the
\* resolver and without an upstream request.
C5_MissingSymbolOrSizeReturnsAtOnce ==
    (/\ ret.op \in {"client", "cached"}
     /\ (ret.position.symbol = <<>> \/ ret.position.size = 0))
    => /\ ret.out.result = ErrorResult
       /\ ret.out.resolver_calls = 0
       /\ ret.out.requests = 0

C5_Witness ==
    /\ ret.op = "cached"
    /\ ret.position.symbol # <<>>
    /\ ret.position.size = 0
    /\ ret.fail = "resolver"
    /\ execs # <<>>

\* C6: batch_get_position_accumulated_data returns exactly one result per
\* input position whichever workers fail: the result of a failing position
\* carries an error and zeros, the others are what the single accumulation
\* gives, and each carries its position's symbol and size.
C6_BatchOneResultPerPosition ==
    ret.op = "batch" =>
        /\ Len(ret.results) = Len(ret.positions)
        /\ \A i \in 1..Len(ret.positions) :
               \E k \in 1..Len(ret.results) :
                   /\ ret.results[k].index = i
                   /\ ret.results[k].symbol = ret.positions[i].symbol
                   /\ ret.results[k].size = ret.positions[i].size
                   /\ IF ret.fails[i] # "none"
                      THEN /\ ret.results[k].error
                           /\ ret.results[k].accumulated_funding = 0
                           /\ ret.results[k].accumulated_fees = 0
                      ELSE \A f \in DOMAIN ErrorResult :
                               ret.results[k][f]
                                   = get_position_accumulated_data(
                                         ret.positions[i], "none").result[f]

C6_Witness ==
    /\ ret.op = "batch"
    /\ Len(ret.positions) = 2
    /\ ret.fails[1] = "fetch"
    /\ ret.fails[2] = "none"
    /\ ret.results[1].index = 2

---------------------------------------------------------------------------
\* What the exchange holds in the window of a daily series

Aggregated == ret.op = "daily" /\ ~ret.raised

WindowStart == now - ret.days * SecondsPerDay

\* The entries of the window dated on the UTC day `date`
HeldOfDay(date) == SelectSeq(HeldLogs(WindowStart), LAMBDA l : DayOf(l.date) = date)

AbsFeesOfDay(date) ==
    LET held == HeldOfDay(date)
    IN  SumSeq([i \in 1..Len(held) |->
            IF held[i].info = "futures trade" THEN Abs(held[i].fee[1]) ELSE 0])

\* The stream with its i-th row fed twice
FeedTwice(stream, i) == SubSeq(stream, 1, i) \o SubSeq(stream, i, Len(stream))

Volumes(data) ==
    [daily |-> [i \in 1..Len(data.daily_data) |-> data.daily_data[i].volume],
     total |-> data.summary.total_volume]

\* The execution map the aggregation had
ExecMapHad ==
    IF ret.fail = "execs" THEN <<>>
    ELSE ExecMap(get_execution_events(WindowStart, now).events)

FedRowsOf(u) == SelectSeq(ret.fed, LAMBDA l : l.execution = Some(u))

\* The USD volume the aggregation attributed to execution u
AttributedVolume(u) ==
    LET rows == SelectSeq(ret.data.trades, LAMBDA t : t.execution_id = Some(u))
    IN  SumSeq([i \in 1..Len(rows) |-> rows[i].usd_volume])

\* quantity (in 0.0001) times price (in USD), in mills
QuantityTimesPrice(quantity, price) == (quantity * price * 1000) \div 10000

\* The USD volume of execution u by the three-step precedence
PrecedenceVolume(u) ==
    LET rows == FedRowsOf(u)
        fee == SumSeq([i \in 1..Len(rows) |-> Abs(rows[i].fee[1])])
    IN  IF u \in DOMAIN ExecMapHad
        THEN IF ExecMapHad[u].usdValue > 0
             THEN ExecMapHad[u].usdValue
             ELSE QuantityTimesPrice(Abs(ExecMapHad[u].quantity), ExecMapHad[u].price)
        ELSE fee * MAKER_RATE_INV * rows[1].trade_price

---------------------------------------------------------------------------
C8_BucketFeesAreHeldFees ==
    Aggregated =>
        SumSeq([i \in 1..Len(ret.data.daily_data) |-> ret.data.daily_data[i].fees])
            = SumSeq([i \in 1..(DayOf(now) - DayOf(WindowStart) + 1) |->
                  Round2(AbsFeesOfDay(DayOf(WindowStart) + i - 1))])

\* C9: within one aggregation pass, a trade row fed twice (same execution
\* id) gives the same volume, per day and in total, as the row fed once.
C9_RowFedTwiceCountsOnce ==
    Aggregated =>
        \A i \in 1..Len(ret.fed) :
            (ret.fed[i].info = "futures trade" /\ ret.fed[i].execution # None) =>
                Volumes(ProcessData(FeedTwice(ret.fed, i), ret.days,
                                    ret.fail = "execs", now))
                    = Volumes(ret.data)

\* C10: the USD volume attributed to a trade is the matched execution's USD
\* notional when it is reported, otherwise quantity times price of the
\* matched execution, otherwise, without a matched execution, the fee divided
\* by the maker rate and multiplied by the price.
C10_VolumePrecedence ==
    (Aggregated /\ \A i \in 1..Len(ret.fed) : Occurrences(ret.fed, ret.fed[i]) = 1) =>
        \A i \in 1..Len(ret.fed) :
            (ret.fed[i].info = "futures trade" /\ ret.fed[i].execution # None) =>
                AttributedVolume(ret.fed[i].execution[1])
                    = PrecedenceVolume(ret.fed[i].execution[1])

---------------------------------------------------------------------------
\* The display calculations: dashboard_utils.py, routes/positions.py, app.py
\* Prices are whole USD, sizes multiples of 0.0001, fee rates multiples of
\* 0.0001 (basis points), results mills.

\* A product of lots and USD, in mills, is the product divided by this
LotsPerMill == 10
\* A product of lots, USD and basis points, in mills, is the product divided by this
LotBasisPointsPerMill == 100000

calculate_unrealized_pnl_long_only(position, current_price) ==
    IF current_price <= 0 \/ position.size = 0 \/ position.price <= 0 THEN 0
    ELSE Round2Div((current_price - position.price) * Abs(position.size),
                   LotsPerMill)

\* calculate_unrealized_pnl (the two copies are the same text).  A missing
\* size or price field reads as 0.
calculate_unrealized_pnl(position, current_price) ==
    IF current_price = 0 \/ current_price <= 0 THEN 0
    ELSE LET size == position.size
         IN  IF size = 0 THEN 0
             ELSE LET avg_price == position.price
                  IN  IF avg_price <= 0 THEN 0
                      ELSE LET pnl == IF size > 0
                                      THEN (current_price - avg_price) * Abs(size)
                                      ELSE (avg_price - current_price) * Abs(size)
                           IN  Round2Div(pnl, LotsPerMill)

\* routes/positions.format_position_data, the calculated fields
format_position_data(kraken_pos, current_price, accumulated_data, maker_fee) ==
    LET unrealized_pnl == calculate_unrealized_pnl(kraken_pos, current_price)
        accumulated_funding == accumulated_data.accumulated_funding
        accumulated_fees == accumulated_data.accumulated_fees
        size == kraken_pos.size
        closing_fees == Round2Div(Abs(size) * current_price * maker_fee,
                                  LotBasisPointsPerMill)
        net_pnl == IF accumulated_funding < 0
                   THEN Round2(unrealized_pnl - Abs(accumulated_funding)
                               - accumulated_fees - closing_fees)
                   ELSE Round2(unrealized_pnl + accumulated_funding
                               - accumulated_fees - closing_fees)
    IN  [symbol |-> kraken_pos.symbol, size |-> size,
         avgPrice |-> kraken_pos.price, currentPrice |-> current_price,
         unrealizedPnl |-> Round2(unrealized_pnl),
         accumulatedFunding |-> Round2(accumulated_funding),
         accumulatedFees |-> Round2(accumulated_fees),
         closingFees |-> closing_fees, netUnrealizedPnl |-> net_pnl,
         dataIsCapped |-> accumulated_data.data_is_capped,
         error |-> accumulated_data.error,
         side |-> IF size > 0 THEN "long" ELSE "short"]

\* app.get_open_positions_data, one iteration of the loop over batch_results.
\* tickers maps a symbol to its mark price; a symbol without ticker reads 0.
EnrichedPosition(result, original_position, tickers) ==
    LET symbol == result.symbol
        current_price == IF symbol \in DOMAIN tickers THEN tickers[symbol] ELSE 0
        avg_price == original_position.price
        unrealized_pnl == calculate_unrealized_pnl(
                              [size |-> result.size, price |-> avg_price],
                              current_price)
        accumulated_funding == result.accumulated_funding
        accumulated_fees == result.accumulated_fees
        net_unrealized_pnl == unrealized_pnl - accumulated_funding - accumulated_fees
    IN  [symbol |-> symbol, size |-> result.size, avgPrice |-> avg_price,
         currentPrice |-> current_price, unrealizedPnl |-> unrealized_pnl,
         accumulatedFunding |-> accumulated_funding,
         accumulatedFees |-> accumulated_fees,
         netUnrealizedPnl |-> net_unrealized_pnl,
         dataIsCapped |-> result.data_is_capped, error |-> result.error]

\* app.get_open_positions_data
get_open_positions_data(fails, order, tickers) ==
    LET positions == OpenPositions
    IN  IF positions = <<>> THEN <<>>
        ELSE With(BatchCollect(positions, fails, order), LAMBDA batch_results :
                 [i \in 1..Len(batch_results) |->
                     EnrichedPosition(batch_results[i], positions[i], tickers)])

---------------------------------------------------------------------------
\* The specification of the open positions view

OpenPositionsData(fails, order, tickers) ==
    /\ Quiet
    /\ Settled
    /\ ret' = [op |-> "open_positions", positions |-> OpenPositions,
               fails |-> fails, order |-> order, tickers |-> tickers,
               enriched |-> get_open_positions_data(fails, order, tickers)]
    /\ UNCHANGED <<exchange, steps, service>>

MarkPrices == {0, 110}

ViewOpenPositions ==
    \E order \in CompletionOrders(Len(OpenPositions)) :
        \E fails \in [1..Len(OpenPositions) -> BatchFails] :
            \E tickers \in [{SymA, SymAB} -> MarkPrices] :
                OpenPositionsData(fails, order, tickers)

NextPositions ==
    \/ TradeA
    \/ TradeAB
    \/ FundingA
    \/ ViewOpenPositions

SpecPositions == Init /\ [][NextPositions]_vars

---------------------------------------------------------------------------
\* The specification of the calculators: each is applied to inputs of its own

PnlPositions ==
    [size : {-100000, -1, 0, 1, 100000}, price : {-5, 0, 100}]
PnlPrices == {-5, 0, 90, 110}

\* The calculators are pure functions of their arguments: a behaviour of
\* SpecCalc makes one call.
UnrealizedPnl(position, current_price) ==
    /\ ret = NoCall
    /\ ret' = [op |-> "pnl", position |-> position, current_price |-> current_price,
               pnl |-> calculate_unrealized_pnl(position, current_price)]
    /\ UNCHANGED <<exchange, steps, service>>

FundingCases == {-12500, 0, 12500}

FormatPosition(kraken_pos, current_price, accumulated_data, maker_fee) ==
    /\ ret = NoCall
    /\ ret' = [op |-> "format", kraken_pos |-> kraken_pos,
               current_price |-> current_price,
               accumulated_data |-> accumulated_data, maker_fee |-> maker_fee,
               out |-> format_position_data(kraken_pos, current_price,
                                            accumulated_data, maker_fee)]
    /\ UNCHANGED <<exchange, steps, service>>

CalcPnl == \E position \in PnlPositions, price \in PnlPrices : UnrealizedPnl(position, price)
CalcFormat ==
    \E size \in {-100000, 100000}, price \in {90, 110}, funding \in FundingCases,
       fees \in {0, 1000}, maker_fee \in {0, 2} :
        FormatPosition([symbol |-> SymA, size |-> size, price |-> TradePrice], price,
                       [accumulated_funding |-> funding, accumulated_fees |-> fees,
                        data_is_capped |-> FALSE, error |-> FALSE],
                       maker_fee)

---------------------------------------------------------------------------
\* C11 as stated: calculate_unrealized_pnl returns the exact product
\* (current - entry) x |size| for a long, (entry - current) x |size| for a
\* short, and 0 when a price is not positive or the size is 0 or missing.
C11_PnlIsExactProduct ==
    ret.op = "pnl" =>
        LET size == ret.position.size
            entry == ret.position.price
            current == ret.current_price
        IN  IF current <= 0 \/ entry <= 0 \/ size = 0 THEN ret.pnl = 0
            ELSE ret.pnl * LotsPerMill
                     = (IF size > 0 THEN current - entry ELSE entry - current)
                           * Abs(size)

\* C11 amended: calculate_unrealized_pnl returns that product rounded to the
\* cent, and 0 when a price is not positive or the size is 0 or missing.
C11_PnlIsProductToTheCent ==
    ret.op = "pnl" =>
        LET size == ret.position.size
            entry == ret.position.price
            current == ret.current_price
        IN  IF current <= 0 \/ entry <= 0 \/ size = 0 THEN ret.pnl = 0
            ELSE ret.pnl
                     = Round2Div((IF size > 0 THEN current - entry ELSE entry - current)
                                     * Abs(size), LotsPerMill)

C11_Witness ==
    /\ ret.op = "pnl"
    /\ ret.position = [size |-> -100000, price |-> 100]
    /\ ret.current_price = 90
    /\ ret.pnl = 100000

\* C12: wherever net P&L is computed for display, an accumulated funding of f
\* changes net P&L by exactly f relative to unrealized - fees - closing fee.
C12_FundingEntersNetSigned ==
    /\ ret.op = "format" =>
           ret.out.netUnrealizedPnl
               = ret.out.unrealizedPnl - ret.out.accumulatedFees
                     - ret.out.closingFees + ret.out.accumulatedFunding
    /\ ret.op = "open_positions" =>
           \A i \in 1..Len(ret.enriched) :
               ret.enriched[i].netUnrealizedPnl
                   = ret.enriched[i].unrealizedPnl - ret.enriched[i].accumulatedFees
                         + ret.enriched[i].accumulatedFunding

---------------------------------------------------------------------------
\* The signed request with retries (kraken_client.make_request).  A call is a
\* record that moves at the call's suspension points: the transport's answer
\* to a request and the end of a sleep.

MAX_RETRIES == 3
INITIAL_RETRY_DELAY == 10

\* What the transport can do with one request: a body without an error field,
\* a body with one (which is how a rejected key can arrive), an HTTP error
\* status (429, 401, or 503 with a body that mentions the rate limit), or no
\* response at all.
Answers == {"ok", "api_error", "http_429", "http_401", "http_503_rate_limit", "network_error"}

IsHTTPError(answer) == answer \in {"http_429", "http_401", "http_503_rate_limit"}

\* e.code == 429 or "rate limit" in error_body.lower()
IsRateLimit(answer) == answer \in {"http_429", "http_503_rate_limit"}

\* The answers by which the exchange rejects the key or the signature
AuthFailures == {"http_401", "api_error"}

NextDelayConstant(retry_delay) == retry_delay

\* retry_delay *= 2
NextDelay(retry_delay) == retry_delay * 2

NewRequest ==
    [pc |-> "send", attempt |-> 0, retry_delay |-> INITIAL_RETRY_DELAY,
     last_error |-> None, requests |-> <<>>, answers |-> <<>>, sleeps |-> <<>>]

AfterFailureNoRetry(r) == [r EXCEPT !.pc = "raised"]

\* The end of one iteration that did not return: sleep when an attempt is
\* left, raise KrakenAPIError when the loop is over.
AfterFailure(r) ==
    IF r.attempt < MAX_RETRIES - 1 THEN [r EXCEPT !.pc = "sleep"]
    ELSE [r EXCEPT !.pc = "raised"]

\* One iteration of the loop up to its suspension: the request goes out at
\* time t and the transport answers it.
OnAnswer(r, t, answer) ==
    LET sent == [r EXCEPT !.requests = Append(@, t), !.answers = Append(@, answer)]
    IN  IF answer = "ok" THEN [sent EXCEPT !.pc = "returned"]
        ELSE IF IsHTTPError(answer)
        THEN IF IsRateLimit(answer) /\ sent.attempt < MAX_RETRIES - 1
             THEN [sent EXCEPT !.pc = "sleep"]
             ELSE AfterFailure([sent EXCEPT !.last_error = Some(answer)])
        ELSE AfterFailure([sent EXCEPT !.last_error = Some(answer)])

\* time.sleep(retry_delay); retry_delay *= 2; the next iteration
AfterSleep(r) ==
    [r EXCEPT !.sleeps = Append(@, r.retry_delay),
              !.retry_delay = NextDelay(r.retry_delay),
              !.attempt = r.attempt + 1,
              !.pc = "send"]

RequestDone(r) == r.pc \in {"returned", "raised"}

\* Specification SpecRequest: calls of make_request, one at a time

MakeRequest ==
    /\ steps < MaxSteps
    /\ ret.op = "none" \/ (ret.op = "request" /\ RequestDone(ret.req))
    /\ ret' = [op |-> "request", req |-> NewRequest]
    /\ steps' = steps + 1
    /\ UNCHANGED <<exchange, service>>

TransportAnswers ==
    /\ ret.op = "request" /\ ret.req.pc = "send"
    /\ \E answer \in Answers : ret' = [ret EXCEPT !.req = OnAnswer(ret.req, now, answer)]
    /\ UNCHANGED <<exchange, steps, service>>

Sleep ==
    /\ ret.op = "request" /\ ret.req.pc = "sleep"
    /\ now' = now + ret.req.retry_delay
    /\ ret' = [ret EXCEPT !.req = AfterSleep(ret.req)]
    /\ UNCHANGED <<before_incl, execs, logs, steps, service>>

NextRequest == \/ MakeRequest \/ TransportAnswers \/ Sleep

SpecRequest == Init /\ [][NextRequest]_vars

\* The call in progress has been answered with 429 three times in a row
ThreeRateLimits ==
    /\ ret.op = "request"
    /\ Len(ret.req.answers) >= 3
    /\ \A i \in 1..3 : ret.req.answers[i] = "http_429"

StrictlyIncreasing(s) == \A i \in 1..(Len(s) - 1) : s[i] < s[i + 1]

\* C13 as stated: a call answered with HTTP 429 three times in a row retries
\* three times, sleeping before each retry with strictly increasing delays,
\* and only then raises: three sleeps and four requests.
C13_ThreeRetriesAfterThree429 ==
    (ThreeRateLimits /\ RequestDone(ret.req)) =>
        /\ ret.req.pc = "raised"
        /\ Len(ret.req.sleeps) = 3
        /\ StrictlyIncreasing(ret.req.sleeps)

\* C13 amended: a call answered with HTTP 429 three times in a row has made
\* exactly three requests, the first and two retries, has slept
\* INITIAL_RETRY_DELAY before the first retry and twice that before the
\* second, each request going out exactly that long after the one before,
\* and has raised after the third answer without sleeping again.
C13_TwoRetriesAfterThree429 ==
    ThreeRateLimits =>
        /\ ret.req.pc = "raised"
        /\ ret.req.last_error = Some("http_429")
        /\ Len(ret.req.requests) = 3
        /\ ret.req.sleeps = <<INITIAL_RETRY_DELAY, 2 * INITIAL_RETRY_DELAY>>
        /\ StrictlyIncreasing(ret.req.sleeps)
        /\ \A i \in 1..2 : ret.req.requests[i + 1] = ret.req.requests[i] + ret.req.sleeps[i]
        /\ now = ret.req.requests[3]

C13_Witness ==
    /\ ThreeRateLimits
    /\ ret.req.pc = "raised"
    /\ ret.req.sleeps = <<10, 20>>

\* C14: a call whose first request is answered by a rejection of the key or
\* signature (HTTP 401, or an error field in the body) raises after that one
\* attempt: it never sleeps and sends no second request.
C14_AuthFailureIsNotRetried ==
    (ret.op = "request" /\ ret.req.answers # <<>> /\ ret.req.answers[1] \in AuthFailures) =>
        /\ ret.req.pc = "raised"
        /\ Len(ret.req.requests) = 1
        /\ ret.req.sleeps = <<>>

---------------------------------------------------------------------------
\* The file cache's key (app.get_cache_key).  Strings are sequences of
\* characters; the MD5 digest is taken to be collision-free, so the digest of
\* a string is modelled by the string under a tag.

KEY_PREFIX_LEN == 8

DigitChars == <<"0", "1", "2", "3", "4", "5", "6", "7", "8", "9">>

\* str(n) of a non-negative integer
RECURSIVE Decimal(_)
Decimal(n) ==
    IF n < 10 THEN <<DigitChars[n + 1]>>
    ELSE Decimal(n \div 10) \o <<DigitChars[(n % 10) + 1]>>

md5_hexdigest(raw) == <<"md5", raw>>

get_cache_key(api_key, data_type, since_ts, before_ts) ==
    LET key_prefix == IF Len(api_key) > KEY_PREFIX_LEN THEN SubSeq(api_key, 1, KEY_PREFIX_LEN)
                      ELSE api_key
        raw_key == key_prefix \o <<"_">> \o data_type \o <<"_">> \o Decimal(since_ts)
                       \o <<"_">> \o Decimal(before_ts)
    IN  md5_hexdigest(raw_key)

\* API keys of two accounts: two of nine characters that differ in the
\* ninth only, one that differs in the first, and a short one
KeyStem == <<"k", "F", "u", "t", "0", "9", "x", "Q">>
ApiKeys == {KeyStem \o <<"A">>, KeyStem \o <<"B">>, <<"z">> \o Tail(KeyStem), <<"k", "F">>}

\* The data types of the callers: chart_data_<days> and chunk_<i>_<days>
DataTypes == {<<"c", "h", "a", "r", "t", "_", "d", "a", "t", "a", "_", "7">>,
              <<"c", "h", "u", "n", "k", "_", "0", "_", "7">>}

KeyWindows == {<<0, 1000>>, <<10, 1000>>, <<1000, 2000>>}

KeyInputs == [api_key : ApiKeys, data_type : DataTypes, window : KeyWindows]

CacheKeyOf(in) == get_cache_key(in.api_key, in.data_type, in.window[1], in.window[2])

\* Two calls of get_cache_key
CacheKeys(a, b) ==
    /\ ret = NoCall
    /\ ret' = [op |-> "cache_key", a |-> a, b |-> b,
               key_a |-> CacheKeyOf(a), key_b |-> CacheKeyOf(b)]
    /\ UNCHANGED <<exchange, steps, service>>

CalcCacheKeys == \E a \in KeyInputs, b \in KeyInputs : CacheKeys(a, b)

\* C15: two calls of get_cache_key with the same four arguments return the
\* same key, and two calls whose API keys differ or whose data types differ
\* return different keys.
C15_CacheKeySeparatesAccountsAndTypes ==
    ret.op = "cache_key" =>
        /\ ret.a = ret.b => ret.key_a = ret.key_b
        /\ (ret.a.api_key # ret.b.api_key \/ ret.a.data_type # ret.b.data_type)
               => ret.key_a # ret.key_b

---------------------------------------------------------------------------
\* The dashboard's daily aggregation (dashboard_utils.aggregate_logs_by_day).
\* An entry's date is None when the entry has none or one that does not
\* parse; daily_data is a function from the day keys to the day's record.
\* The trades of a day are kept as the set of their aggregates, the order of
\* the final list is not modelled.

Unknown == <<"U", "n", "k", "n", "o", "w", "n">>

\* The contracts of the model carry no prefix, none of the special asset
\* names and no "USD", which leaves the first and the last return.
extract_asset_from_contract(contract) ==
    IF contract = <<>> THEN Unknown
    ELSE LET contract_upper == Upper(contract)
         IN  IF Contains(<<"U", "S", "D">>, contract_upper)
             THEN LET cut == CHOOSE i \in 1..Len(contract_upper) :
                                 /\ SubSeq(contract_upper, i, i + 2) = <<"U", "S", "D">>
                                 /\ \A j \in 1..(i - 1) :
                                        SubSeq(contract_upper, j, j + 2) # <<"U", "S", "D">>
                      asset == SubSeq(contract_upper, 1, cut - 1)
                  IN  IF asset = <<>> THEN Unknown ELSE asset
             ELSE Unknown

\* float(x or 0) of a value that may be missing
FloatOrZero(x) == IF x = None THEN 0 ELSE x[1]

InvertedFundingAlwaysCost(funding_val) == -Abs(funding_val)

\* -funding_val if funding_val > 0 else abs(funding_val)
InvertedFunding(funding_val) == IF funding_val > 0 THEN -funding_val ELSE Abs(funding_val)

NewDay == [fees |-> 0, funding |-> 0, trades |-> {}]

\* The aggregate of a day's trades under one key, after one more trade
AggregateTrade(trades, asset, price, quantity, fee, first_time) ==
    IF \E t \in trades : t.asset = asset /\ t.price = price
    THEN {IF t.asset = asset /\ t.price = price
          THEN [t EXCEPT !.quantity = @ + quantity, !.fee = @ + fee, !.count = @ + 1]
          ELSE t : t \in trades}
    ELSE trades \cup {[asset |-> asset, price |-> price, quantity |-> quantity,
                       fee |-> fee, count |-> 1, first_time |-> first_time]}

\* One iteration of the loop over the entries
AggregateEntry(daily_data, entry) ==
    IF entry.date = None THEN daily_data
    ELSE LET day_key == DayOf(entry.date[1])
             opened == IF day_key \in DOMAIN daily_data THEN daily_data
                       ELSE [d \in DOMAIN daily_data \cup {day_key} |->
                                IF d = day_key THEN NewDay ELSE daily_data[d]]
         IN  IF entry.info = "futures trade"
             THEN LET fee == Abs(FloatOrZero(entry.fee))
                      asset == extract_asset_from_contract(entry.contract)
                      price == Abs(entry.trade_price)
                  IN  [opened EXCEPT ![day_key].fees = @ + fee,
                                     ![day_key].trades =
                                         AggregateTrade(@, asset, price, 0, fee,
                                                        entry.date[1] % SecondsPerDay)]
             ELSE IF entry.info = "funding rate change"
             THEN LET funding_val == FloatOrZero(entry.realized_funding)
                      funding == InvertedFunding(funding_val)
                  IN  [opened EXCEPT ![day_key].funding = @ + funding]
             ELSE opened

RECURSIVE AggregateEntries(_, _)
AggregateEntries(daily_data, entries) ==
    IF entries = <<>> THEN daily_data
    ELSE AggregateEntries(AggregateEntry(daily_data, Head(entries)), Tail(entries))

aggregate_logs_by_day(entries) == AggregateEntries(<<>>, entries)

\* The entries handed to the aggregation: funding entries with a positive, a
\* negative or no realized_funding, on two days or undated, a trade and a
\* transfer.
EntryDates == {None, Some(Epoch + 3600), Some(Epoch + SecondsPerDay + 60)}

LogEntry(date, info, fee, realized_funding) ==
    [date |-> date, info |-> info, contract |-> LogContract(SymA), fee |-> fee,
     realized_funding |-> realized_funding, funding_rate |-> None,
     trade_price |-> IF info = "futures trade" THEN TradePrice ELSE 0,
     execution |-> None]

LogEntries ==
    {LogEntry(date, "funding rate change", None, rf) :
        date \in EntryDates, rf \in {None, Some(10500), Some(-5000)}}
    \cup {LogEntry(date, "futures trade", Some(-300), Some(7000)) : date \in EntryDates}
    \cup {LogEntry(Some(Epoch + 3600), "transfer", None, None)}

MaxEntries == 3

AggregateByDay(entries) ==
    /\ ret = NoCall
    /\ ret' = [op |-> "by_day", entries |-> entries, out |-> aggregate_logs_by_day(entries)]
    /\ UNCHANGED <<exchange, steps, service>>

CalcByDay ==
    \E n \in 1..MaxEntries : \E entries \in [1..n -> LogEntries] : AggregateByDay(entries)

NextCalc ==
    \/ CalcPnl
    \/ CalcFormat
    \/ CalcCacheKeys
    \/ CalcByDay

SpecCalc == Init /\ [][NextCalc]_vars

\* The realized funding of the funding entries of a day, entries without the
\* field counting zero
RealizedFundingOfDay(entries, d) ==
    SumSeq([i \in 1..Len(entries) |->
        IF /\ entries[i].date # None
           /\ DayOf(entries[i].date[1]) = d
           /\ entries[i].info = "funding rate change"
           /\ entries[i].realized_funding # None
        THEN entries[i].realized_funding[1] ELSE 0])

\* C16: the aggregation has one record for every day on which a dated entry
\* falls and for no other day, and a day's funding is the negated sum of
\* the realized_funding of that day's funding entries: entries without
\* realized_funding add nothing, undated entries add to no day.
C16_DayFundingIsNegatedSum ==
    ret.op = "by_day" =>
        /\ DOMAIN ret.out = {DayOf(ret.entries[i].date[1]) :
                                i \in {j \in 1..Len(ret.entries) : ret.entries[j].date # None}}
        /\ \A d \in DOMAIN ret.out :
               ret.out[d].funding = -RealizedFundingOfDay(ret.entries, d)

C16_Witness ==
    /\ ret.op = "by_day"
    /\ Len(ret.entries) = 3
    /\ ret.entries[1].date = Some(Epoch + 3600) /\ ret.entries[1].realized_funding = Some(10500)
    /\ ret.entries[2].date = Some(Epoch + 3600) /\ ret.entries[2].realized_funding = None
    /\ ret.entries[2].info = "funding rate change"
    /\ ret.entries[3].date = None /\ ret.entries[3].realized_funding = Some(-5000)
    /\ ret.entries[3].info = "funding rate change"
    /\ DOMAIN ret.out = {DayOf(Epoch)}
    /\ ret.out[DayOf(Epoch)].funding = -10500

---------------------------------------------------------------------------
\* Specification SpecTickers: the ticker fan-out (kraken_client.
\* batch_get_tickers).  Every symbol gets a worker of the thread pool, each
\* worker runs get_ticker, which is one make_request; the workers share the
\* clock and nothing else.  A sleeping worker wakes once its delay is over.

TickerSymbols == <<SymA, SymAB>>

\* ThreadPoolExecutor(max_workers=min(len(symbols), 5))
max_workers(symbols) == IF Len(symbols) < 5 THEN Len(symbols) ELSE 5

\* What the transport does with a ticker request
TickerAnswers == {"ok", "http_429"}

Last(s) == s[Len(s)]

BatchGetTickers ==
    /\ ret.op = "none"
    /\ ret' = [op |-> "tickers", symbols |-> TickerSymbols,
               workers |-> [w \in 1..max_workers(TickerSymbols) |-> NewRequest],
               tickers |-> None]
    /\ UNCHANGED <<exchange, steps, service>>

WorkerRequests(w) ==
    /\ ret.op = "tickers" /\ ret.workers[w].pc = "send"
    /\ \E answer \in TickerAnswers :
           ret' = [ret EXCEPT !.workers[w] = OnAnswer(ret.workers[w], now, answer)]
    /\ UNCHANGED <<exchange, steps, service>>

WorkerWakes(w) ==
    /\ ret.op = "tickers" /\ ret.workers[w].pc = "sleep"
    /\ now >= Last(ret.workers[w].requests) + ret.workers[w].retry_delay
    /\ ret' = [ret EXCEPT !.workers[w] = AfterSleep(ret.workers[w])]
    /\ UNCHANGED <<exchange, steps, service>>

TimePasses ==
    /\ ret.op = "tickers" /\ ret.tickers = None
    /\ steps < MaxSteps
    /\ now' = now + INITIAL_RETRY_DELAY
    /\ steps' = steps + 1
    /\ UNCHANGED <<before_incl, execs, logs, service, ret>>

\* The loop over as_completed: a ticker per symbol, an error entry for a
\* worker that raised
ReturnTickers ==
    /\ ret.op = "tickers" /\ ret.tickers = None
    /\ \A w \in DOMAIN ret.workers : RequestDone(ret.workers[w])
    /\ ret' = [ret EXCEPT !.tickers =
                  Some([w \in DOMAIN ret.workers |->
                           [symbol |-> ret.symbols[w],
                            error |-> ret.workers[w].pc = "raised"]])]
    /\ UNCHANGED <<exchange, steps, service>>

NextTickers ==
    \/ BatchGetTickers
    \/ \E w \in 1..max_workers(TickerSymbols) : WorkerRequests(w)
    \/ \E w \in 1..max_workers(TickerSymbols) : WorkerWakes(w)
    \/ TimePasses
    \/ ReturnTickers

SpecTickers == Init /\ [][NextTickers]_vars

\* C18: no two requests that the workers of one fan-out send to the exchange
\* go out at the same instant: the times of any two of them differ.
C18_RequestsAreSpacedApart ==
    ret.op = "tickers" =>
        \A v \in DOMAIN ret.workers, w \in DOMAIN ret.workers :
            \A i \in 1..Len(ret.workers[v].requests), j \in 1..Len(ret.workers[w].requests) :
                (v # w \/ i # j) => ret.workers[v].requests[i] # ret.workers[w].requests[j]

---------------------------------------------------------------------------
\* Specification SpecAccountLogs: get_account_logs against a server that
\* answers as it likes.  A call is a record that moves once per iteration of
\* the loop: the request goes out with the current cursor and the server's
\* answer is handled up to the next request.  The flow reads the length of
\* a page and the date of its last record only, so the records of a page
\* are all given the date of the last one.

CursorSpan == 11

\* The dates a record of a page can carry, around the first cursor, and None
\* for a record without a date
PageDates == {Some(Epoch + d) : d \in 0..CursorSpan} \cup {None}

PageOf(n, date) == [i \in 1..n |-> [date |-> date]]

\* What one request can come back with: make_request raising, a falsy body,
\* a body of an unexpected type, an error field, or a list of 0..limit logs
ServerAnswers(limit) ==
    {[kind |-> k, logs |-> <<>>] : k \in {"raise", "empty", "unexpected", "error"}}
    \cup {[kind |-> "logs", logs |-> PageOf(n, date)] : n \in 0..limit, date \in PageDates}

MakesNoProgressStrict(new_before, current_before) == new_before > current_before

\* new_before >= current_before
MakesNoProgress(new_before, current_before) == new_before >= current_before

NewAccountLogsCall(since_ts, before_ts, limit) ==
    [pc |-> "request", since |-> since_ts, limit |-> limit, all_logs |-> <<>>,
     current_before |-> before_ts, iteration |-> 0, cursors |-> <<>>, answers |-> <<>>]

\* The rest of the loop once the page is taken and more may follow
NextCursor(c, new_before) ==
    IF MakesNoProgress(new_before, c.current_before) THEN [c EXCEPT !.pc = "returned"]
    ELSE [c EXCEPT !.current_before = new_before,
                   !.pc = IF c.iteration < max_iterations THEN "request" ELSE "returned"]

\* One iteration: the request with the current cursor and the handling of
\* its answer
AccountLogsIteration(call, answer) ==
    LET c == [call EXCEPT !.iteration = @ + 1,
                          !.cursors = Append(@, call.current_before),
                          !.answers = Append(@, answer)]
        logs_ == answer.logs
    IN  IF answer.kind \in {"raise", "error"} THEN [c EXCEPT !.pc = "raised"]
        ELSE IF answer.kind \in {"empty", "unexpected"} THEN [c EXCEPT !.pc = "returned"]
        ELSE IF logs_ = <<>> THEN [c EXCEPT !.pc = "returned"]
        ELSE LET taken == [c EXCEPT !.all_logs = @ \o logs_]
             IN  IF Len(logs_) < c.limit \/ c.limit = 1 THEN [taken EXCEPT !.pc = "returned"]
                 ELSE LET last_date == logs_[Len(logs_)].date
                      IN  IF last_date = None THEN [taken EXCEPT !.pc = "returned"]
                          ELSE NextCursor(taken, last_date[1])

GetAccountLogs ==
    /\ ret.op = "none"
    /\ \E limit \in {1, PageLimit} :
           ret' = [op |-> "account_logs",
                   call |-> NewAccountLogsCall(Epoch, Epoch + CursorSpan - 1, limit)]
    /\ UNCHANGED <<exchange, steps, service>>

PageRequest ==
    /\ ret.op = "account_logs" /\ ret.call.pc = "request"
    /\ \E answer \in ServerAnswers(ret.call.limit) :
           ret' = [ret EXCEPT !.call = AccountLogsIteration(ret.call, answer)]
    /\ UNCHANGED <<exchange, steps, service>>

NextAccountLogs == \/ GetAccountLogs \/ PageRequest

SpecAccountLogs == Init /\ [][NextAccountLogs]_vars

StrictlyDecreasing(s) == \A i \in 1..(Len(s) - 1) : s[i] > s[i + 1]

\* An answer that lets the pagination go on: a full page, of a call that
\* paginates, whose last record has a date
FullDatedPage(c, i) ==
    /\ c.answers[i].kind = "logs"
    /\ Len(c.answers[i].logs) = c.limit
    /\ c.limit # 1
    /\ c.answers[i].logs[c.limit].date # None

\* C19: whatever the server answers, a call of get_account_logs has sent at
\* most max_iterations requests and is over once it has sent that many; the
\* `before` bounds of its requests decrease strictly, each after the first
\* being the date of the last record of the page before; and the call is over
\* at the first page whose last record would not move the bound backwards.
C19_PaginationIsBoundedAndMovesBack ==
    ret.op = "account_logs" =>
        LET c == ret.call
        IN  /\ Len(c.cursors) = c.iteration
            /\ c.iteration <= max_iterations
            /\ c.iteration = max_iterations => c.pc # "request"
            /\ StrictlyDecreasing(c.cursors)
            /\ \A i \in 2..Len(c.cursors) :
                   /\ FullDatedPage(c, i - 1)
                   /\ c.cursors[i] = c.answers[i - 1].logs[c.limit].date[1]
            /\ \A i \in 1..Len(c.answers) :
                   (FullDatedPage(c, i) /\ c.answers[i].logs[c.limit].date[1] >= c.cursors[i])
                       => (i = Len(c.answers) /\ c.pc = "returned")

C19_Witness ==
    /\ ret.op = "account_logs"
    /\ ret.call.pc = "returned"
    /\ ret.call.iteration = max_iterations
    /\ Len(ret.call.all_logs) = max_iterations * PageLimit
    /\ ret.call.current_before < ret.call.cursors[max_iterations]

---------------------------------------------------------------------------
\* Specification SpecResolver: find_true_position_open_time called for a
\* symbol and a size while the exchange books fills and time passes.

\* Time passes: a window of the resolver, less the second the last booking
\* took or not, or the whole of what the resolver looks back on
Wait ==
    \E dt \in {CHUNK_DAYS * SecondsPerDay - 1, CHUNK_DAYS * SecondsPerDay,
               (MAX_LOOKBACK_DAYS \div CHUNK_DAYS) * CHUNK_DAYS * SecondsPerDay} :
        Advance(dt)

\* The sizes the resolver is called with: those of a position the fills add
\* up to, and one they do not reach
ResolverSizes == {1, 2, 5}

FindOpenTime(position_symbol, position_size) ==
    /\ ret.op = "none"
    /\ ret' = [op |-> "open_time", symbol |-> position_symbol, size |-> position_size,
               ts |-> find_true_position_open_time(position_symbol, position_size, now).ts]
    /\ UNCHANGED <<exchange, steps, service>>

CallResolver ==
    \E position_symbol \in {SymA, SymAB}, position_size \in ResolverSizes :
        FindOpenTime(position_symbol, position_size)

NextResolver == \/ TradeA \/ TradeAB \/ Wait \/ CallResolver

SpecResolver == Init /\ [][NextResolver]_vars

\* What the windows of the lookback serve of a symbol, window by window from
\* the newest, each newest first: (timestamp, signed quantity) pairs
RECURSIVE ServedFrom(_, _, _)
ServedFrom(sym, k, current_ts) ==
    IF k >= MAX_LOOKBACK_DAYS \div CHUNK_DAYS THEN <<>>
    ELSE SortNewestFirst(SymbolExecutions(
             ExecutionsPage(current_ts - (k + 1) * CHUNK_DAYS * SecondsPerDay,
                            current_ts - k * CHUNK_DAYS * SecondsPerDay), sym))
         \o ServedFrom(sym, k + 1, current_ts)

Served == ServedFrom(ret.symbol, 0, now)

\* No execution brings the net position below epsilon on the way back
NeverFlat ==
    \A n \in 1..Len(Served) :
        Abs(ret.size - SumSeq([i \in 1..n |-> Served[i][2]])) >= EPSILON

\* C20: a call of the resolver in which undoing the executions of the symbol
\* never brings the net position below epsilon returns the smallest
\* timestamp of those executions, and 30 days before now when the lookback
\* holds no execution of the symbol.
C20_FallbackIsOldestOrThirtyDays ==
    (ret.op = "open_time" /\ NeverFlat) =>
        IF Served = <<>> THEN ret.ts = now - 30 * SecondsPerDay
        ELSE /\ \E i \in 1..Len(Served) : ret.ts = Served[i][1]
             /\ \A i \in 1..Len(Served) : ret.ts <= Served[i][1]

C20_Witness ==
    /\ ret.op = "open_time"
    /\ NeverFlat
    /\ Len(Served) = 2
    /\ Served[1][1] > Served[2][1] + CHUNK_DAYS * SecondsPerDay
    /\ ret.ts = Served[2][1]

\* The lookback holds no execution of the symbol, older ones exist
C20_WitnessNone ==
    /\ ret.op = "open_time"
    /\ Served = <<>>
    /\ \E i \in 1..Len(execs) : execs[i].tradeable = ret.symbol
    /\ ret.ts = now - FALLBACK_DAYS * SecondsPerDay

---------------------------------------------------------------------------
\* Specification SpecService: threads calling get_processed_data on the one
\* UnifiedDataService instance.  A thread moves at the lock, at its upstream
\* fetches and at its reads and writes of the shared attributes; ret holds
\* the lock, the threads and the entries written so far, svc_cache and
\* last_raw_logs are the instance's
\* _cache and _last_raw_logs.  What is fetched is kept by its origin: the API
\* key it was fetched with and its window.

MaxCalls == 3
MaxExpiries == 1

Threads == {1, 2}

\* Two accounts whose keys differ in the first character
AccountKeys == {KeyStem \o <<"A">>, <<"z">> \o Tail(KeyStem)}

Idle == [pc |-> "idle", op |-> "none", api_key |-> <<>>, days |-> 0, since_ts |-> 0,
         data |-> None, got |-> None]

CacheEntryOf(cache, key) == IF key \in DOMAIN cache THEN cache[key] ELSE <<>>

\* _filter_to_days, of what a fetch produced
FilterStub(data, days) ==
    IF data.period_days = days THEN data ELSE [data EXCEPT !.period_days = days]

StoreInPlace(cache, key, entry) ==
    IF key \in DOMAIN cache THEN [cache EXCEPT ![key].data = entry.data]
    ELSE [k \in DOMAIN cache \cup {key} |-> IF k = key THEN entry ELSE cache[k]]

\* self._cache[cache_key] = {...}: the key is bound to the new dict
Store(cache, key, entry) ==
    [k \in DOMAIN cache \cup {key} |-> IF k = key THEN entry ELSE cache[k]]

StartThreads ==
    /\ ret.op = "none"
    /\ ret' = [op |-> "threads", lock |-> 0, calls |-> 0, written |-> {},
               threads |-> [t \in Threads |-> Idle]]
    /\ UNCHANGED <<exchange, steps, service>>

Free(t) == ret.op = "threads" /\ ret.threads[t].pc \in {"idle", "done", "raised"}
               /\ ret.calls < MaxCalls

\* A thread enters get_processed_data(api_key, days)
EnterProcessed(t, api_key, days) ==
    /\ Free(t)
    /\ ret' = [ret EXCEPT !.calls = @ + 1,
                          !.threads[t] =
                              [Idle EXCEPT !.pc = "lock_check", !.op = "processed",
                                           !.api_key = api_key, !.days = days]]
    /\ UNCHANGED <<exchange, steps, service>>

\* A thread enters get_raw_logs(api_key, since_ts, before_ts): days_needed
\* from the clock, then get_processed_data
EnterRawLogs(t, api_key, since_ts) ==
    /\ Free(t)
    /\ LET whole_days == (now - since_ts) \div SecondsPerDay + 1
           days_needed == IF whole_days < 1 THEN 1 ELSE whole_days
       IN  ret' = [ret EXCEPT !.calls = @ + 1,
                              !.threads[t] =
                                  [Idle EXCEPT !.pc = "lock_check", !.op = "raw",
                                               !.api_key = api_key, !.days = days_needed,
                                               !.since_ts = since_ts]]
    /\ UNCHANGED <<exchange, steps, service>>

\* with self._cache_lock, before the check and before the write
AcquireLock(t) ==
    /\ ret.op = "threads" /\ ret.threads[t].pc \in {"lock_check", "lock_write"}
    /\ ret.lock = 0
    /\ ret' = [ret EXCEPT !.lock = t,
                          !.threads[t].pc = IF @ = "lock_check" THEN "check" ELSE "write"]
    /\ UNCHANGED <<exchange, steps, service>>

\* The check under the lock: a valid entry of enough days is returned
\* filtered, otherwise the lock is left for the fetch
CheckCache(t) ==
    /\ ret.op = "threads" /\ ret.threads[t].pc = "check"
    /\ LET th == ret.threads[t]
           cache_entry == CacheEntryOf(svc_cache, cache_key(th.api_key))
       IN  IF is_cache_valid(cache_entry, now) /\ cache_entry.days >= th.days
           THEN ret' = [ret EXCEPT !.lock = 0,
                                   !.threads[t].got = Some(cache_entry),
                                   !.threads[t].data =
                                       Some(FilterStub(cache_entry.data, th.days)),
                                   !.threads[t].pc =
                                       IF th.op = "raw" THEN "filter" ELSE "done"]
           ELSE ret' = [ret EXCEPT !.lock = 0, !.threads[t].pc = "fetch"]
    /\ UNCHANGED <<exchange, steps, service>>

\* _fetch_and_process_data: the account logs arrive and are kept in
\* _last_raw_logs, or the fetch raises
FetchLogs(t) ==
    /\ ret.op = "threads" /\ ret.threads[t].pc = "fetch"
    /\ \E fail \in BOOLEAN :
           IF fail
           THEN /\ ret' = [ret EXCEPT !.threads[t].pc = "raised"]
                /\ UNCHANGED last_raw_logs
           ELSE /\ last_raw_logs' =
                       Some([owner |-> ret.threads[t].api_key,
                             since |-> now - ret.threads[t].days * SecondsPerDay])
                /\ ret' = [ret EXCEPT !.threads[t].pc = "process"]
    /\ UNCHANGED <<exchange, steps, svc_cache>>

\* The executions arrive or not and the logs are processed
ProcessFetched(t) ==
    /\ ret.op = "threads" /\ ret.threads[t].pc = "process"
    /\ ret' = [ret EXCEPT !.threads[t].data =
                              Some([owner |-> ret.threads[t].api_key,
                                    period_days |-> ret.threads[t].days]),
                          !.threads[t].pc = "lock_write"]
    /\ UNCHANGED <<exchange, steps, service>>

\* The write under the lock
WriteCache(t) ==
    /\ ret.op = "threads" /\ ret.threads[t].pc = "write"
    /\ LET th == ret.threads[t]
           entry == [data |-> th.data[1], timestamp |-> now, days |-> th.days]
       IN  /\ svc_cache' = Store(svc_cache, cache_key(th.api_key), entry)
           /\ ret' = [ret EXCEPT !.lock = 0,
                                 !.written = @ \cup {entry},
                                 !.threads[t].pc = IF th.op = "raw" THEN "filter" ELSE "done"]
    /\ UNCHANGED <<exchange, steps, last_raw_logs>>

\* get_raw_logs after get_processed_data: the logs of _last_raw_logs inside
\* the requested range
FilterRawLogs(t) ==
    /\ ret.op = "threads" /\ ret.threads[t].pc = "filter"
    /\ ret' = [ret EXCEPT !.threads[t].pc = IF last_raw_logs = None THEN "raised" ELSE "done",
                          !.threads[t].got = last_raw_logs]
    /\ UNCHANGED <<exchange, steps, service>>

\* The cache's time to live passes
CacheExpires ==
    /\ ret.op = "threads"
    /\ steps < MaxExpiries
    /\ steps' = steps + 1
    /\ now' = now + cache_ttl
    /\ UNCHANGED <<before_incl, execs, logs, service, ret>>

\* The threads of one account asking for one or two days
CallProcessed ==
    \E t \in Threads, days \in 1..2 : EnterProcessed(t, KeyStem \o <<"A">>, days)

ThreadStep ==
    \E t \in Threads :
        \/ AcquireLock(t)
        \/ CheckCache(t)
        \/ FetchLogs(t)
        \/ ProcessFetched(t)
        \/ WriteCache(t)

NextService ==
    \/ StartThreads
    \/ CallProcessed
    \/ ThreadStep
    \/ CacheExpires

SpecService == Init /\ [][NextService]_vars

\* An entry whose parts belong together: one that a writer wrote, with the
\* data of as many days as the entry says
WholeEntry(entry) ==
    /\ entry \in ret.written
    /\ entry.data.period_days = entry.days

\* C21: whatever the interleaving of writers and readers, the entry a reader
\* of get_processed_data finds under the lock, and every entry the cache
\* holds, is an entry some writer wrote, its data, timestamp and days
\* together: never parts of two entries.
C21_EntriesAreReplacedWhole ==
    ret.op = "threads" =>
        /\ \A t \in Threads :
               (ret.threads[t].op = "processed" /\ ret.threads[t].got # None)
                   => WholeEntry(ret.threads[t].got[1])
        /\ \A k \in DOMAIN svc_cache : WholeEntry(svc_cache[k])

\* A reader holds the previous entry while a writer has replaced it
C21_Witness ==
    /\ ret.op = "threads"
    /\ \E t \in Threads :
           /\ ret.threads[t].op = "processed"
           /\ ret.threads[t].pc = "done"
           /\ ret.threads[t].got # None
           /\ svc_cache[cache_key(ret.threads[t].api_key)] # ret.threads[t].got[1]
           /\ svc_cache[cache_key(ret.threads[t].api_key)].timestamp
                  = ret.threads[t].got[1].timestamp

\* Between its check that missed and its write
Fetching(t) == ret.threads[t].pc \in {"fetch", "process", "lock_write", "write"}

\* C22: no two callers are at once between a check that missed and the write
\* of the fresh entry for the same key.
C22_OneFetchPerKey ==
    ret.op = "threads" =>
        \A t \in Threads, u \in Threads :
            (t # u /\ Fetching(t) /\ Fetching(u))
                => cache_key(ret.threads[t].api_key) # cache_key(ret.threads[u].api_key)

---------------------------------------------------------------------------
\* Specification SpecRawLogs: the threads of two accounts calling
\* get_processed_data and get_raw_logs on the shared instance

CallOfAccount ==
    \E t \in Threads, api_key \in AccountKeys :
        \/ EnterProcessed(t, api_key, 1)
        \/ \E window \in 1..2 : EnterRawLogs(t, api_key, now - window * SecondsPerDay + 1)

NextRawLogs ==
    \/ StartThreads
    \/ CallOfAccount
    \/ ThreadStep
    \/ \E t \in Threads : FilterRawLogs(t)
    \/ CacheExpires

SpecRawLogs == Init /\ [][NextRawLogs]_vars

\* C25: the logs a call of get_raw_logs returns were fetched with the
\* caller's API key, for a window that starts no later than the requested
\* range.
C25_RawLogsOfTheCallerAndRange ==
    ret.op = "threads" =>
        \A t \in Threads :
            (ret.threads[t].op = "raw" /\ ret.threads[t].pc = "done")
                => /\ ret.threads[t].got[1].owner = ret.threads[t].api_key
                   /\ ret.threads[t].got[1].since <= ret.threads[t].since_ts

---------------------------------------------------------------------------
\* app.get_chart_data: the chart series behind the file cache of CACHE_DIR.
\* In SpecChart svc_cache holds the cache files, by cache key, each with its
\* modification time.

CACHE_DURATION == 300

\* dashboard_utils.get_period_boundaries: from the start of the day
\* days_back - 1 days ago to the start of tomorrow
get_period_boundaries(days_back) ==
    [since_ts |-> (DayOf(now) - (days_back - 1)) * SecondsPerDay,
     before_ts |-> (DayOf(now) + 1) * SecondsPerDay]

\* app.get_cached_data: the file's content while the file is younger than
\* CACHE_DURATION
get_cached_data(files, key) ==
    IF key \in DOMAIN files /\ now - files[key].mtime < CACHE_DURATION
    THEN Some(files[key].data)
    ELSE None

\* app.save_to_cache
save_to_cache(files, key, data) == Store(files, key, [data |-> data, mtime |-> now])

\* app.fetch_data_parallel: a fetch that fails leaves its half empty and adds
\* its message to errors
fetch_data_parallel(since_ts, before_ts, fail_executions, fail_logs) ==
    [executions |-> IF fail_executions THEN <<>>
                    ELSE get_execution_events(since_ts, before_ts).events,
     logs |-> IF fail_logs THEN <<>>
              ELSE get_account_logs(since_ts, before_ts, PageLimit).logs,
     errors |-> (IF fail_executions THEN <<"Execution events error">> ELSE <<>>)
                    \o (IF fail_logs THEN <<"Account logs error">> ELSE <<>>)]

\* daily_funding of get_chart_data: the absolute funding booked on a day
ChartFunding(fetched_logs, day) ==
    SumSeq([i \in 1..Len(fetched_logs) |->
        IF /\ fetched_logs[i].funding_rate # None
           /\ fetched_logs[i].realized_funding # None
           /\ DayOf(fetched_logs[i].date) = day
        THEN Abs(fetched_logs[i].realized_funding[1]) ELSE 0])

\* daily_data[day]['fees'] of get_chart_data
ChartFees(executions, day) ==
    SumSeq([i \in 1..Len(executions) |->
        IF DayOf(executions[i].timestamp) = day THEN Abs(executions[i].fee) ELSE 0])

\* trades_by_day[day]: the executions of a day grouped by asset and price.
\* The list is sorted by asset and price, so the set of its groups is the list.
ChartTrades(executions, day) ==
    LET ofDay == SelectSeq(executions, LAMBDA e : DayOf(e.timestamp) = day)
        key(e) == <<extract_asset_from_contract(e.tradeable), e.price>>
    IN  {[asset |-> k[1], price |-> k[2],
          quantity |-> SumSeq([i \in 1..Len(ofDay) |->
                          IF key(ofDay[i]) = k THEN Abs(ofDay[i].quantity) ELSE 0]),
          fee |-> SumSeq([i \in 1..Len(ofDay) |->
                          IF key(ofDay[i]) = k THEN Abs(ofDay[i].fee) ELSE 0]),
          count |-> Cardinality({i \in 1..Len(ofDay) : key(ofDay[i]) = k})] :
            k \in {key(ofDay[i]) : i \in 1..Len(ofDay)}}

\* The days get_chart_data found an execution or a funding entry on
ChartDays(executions, fetched_logs) ==
    {DayOf(executions[i].timestamp) : i \in 1..Len(executions)}
        \cup {DayOf(fetched_logs[i].date) :
                i \in {j \in 1..Len(fetched_logs) :
                          /\ fetched_logs[j].funding_rate # None
                          /\ fetched_logs[j].realized_funding # None}}

\* The result of get_chart_data, by day: labels is its domain in order
ChartResult(executions, fetched_logs) ==
    [day \in ChartDays(executions, fetched_logs) |->
        [fees |-> Round2(ChartFees(executions, day)),
         funding |-> Round2(ChartFunding(fetched_logs, day)),
         trades |-> ChartTrades(executions, day)]]

\* app.get_chart_data: the call, with the cache files it leaves
get_chart_data(files, api_key, days_back, fail_executions, fail_logs) ==
    With(get_period_boundaries(days_back), LAMBDA period :
    With(get_cache_key(api_key, <<"chart_data_">> \o Decimal(days_back),
                       period.since_ts, period.before_ts), LAMBDA key :
    With(get_cached_data(files, key), LAMBDA cached_data :
        IF cached_data # None
        THEN [raised |-> FALSE, cached |-> TRUE, errors |-> <<>>,
              result |-> cached_data, files |-> files]
        ELSE
    With(fetch_data_parallel(period.since_ts, period.before_ts,
                             fail_executions, fail_logs), LAMBDA fetched :
        IF fetched.errors # <<>> /\ fetched.executions = <<>> /\ fetched.logs = <<>>
        THEN [raised |-> TRUE, cached |-> FALSE, errors |-> fetched.errors,
              result |-> None, files |-> files]
        ELSE
    With(ChartResult(fetched.executions, fetched.logs), LAMBDA result :
        [raised |-> FALSE, cached |-> FALSE, errors |-> fetched.errors,
         result |-> Some(result), files |-> save_to_cache(files, key, result)])))))

GetChartData(days_back, fail_executions, fail_logs) ==
    /\ Quiet
    /\ \E r \in {get_chart_data(svc_cache, KeyStem, days_back,
                                fail_executions, fail_logs)} :
           /\ ret' = [op |-> "chart", days_back |-> days_back,
                      raised |-> r.raised, cached |-> r.cached,
                      errors |-> r.errors, result |-> r.result]
           /\ svc_cache' = r.files
    /\ UNCHANGED <<exchange, steps, last_raw_logs>>

ChartRequest ==
    \E days_back \in 1..2, fail_executions \in BOOLEAN, fail_logs \in BOOLEAN :
        GetChartData(days_back, fail_executions, fail_logs)

\* The cache files age past CACHE_DURATION
FilesAge == Advance(CACHE_DURATION)

NextChart ==
    \/ FillA
    \/ FundingTick
    \/ FilesAge
    \/ ChartRequest

SpecChart == Init /\ [][NextChart]_vars

\* C23: a call of get_chart_data in which one of the two fetches failed ends
\* in a failure, returns no series and leaves the cache files as they were.
C23_FailedFetchPublishesNothing ==
    [][(ret'.op = "chart" /\ ret'.errors # <<>>)
           => (ret'.raised /\ ret'.result = None /\ svc_cache' = svc_cache)]_vars

---------------------------------------------------------------------------
\* Specification SpecFiltered: get_processed_data called one call after the
\* other on the daily world, with shorter periods served from the cache entry
\* of a longer one

GetProcessedData(days, fail) ==
    /\ Quiet
    /\ \E r \in {get_processed_data(svc_cache, last_raw_logs, ApiKey, days, fail, now)} :
           /\ ret' = [op |-> "processed", days |-> days, raised |-> r.raised,
                      requests |-> r.requests, data |-> r.data]
           /\ svc_cache' = r.cache
           /\ last_raw_logs' = r.raw
    /\ UNCHANGED <<exchange, steps>>

CallGetProcessedData ==
    \E days \in 1..MaxDays, fail \in {"none", "execs", "logs"} :
        GetProcessedData(days, fail)

\* A moment passes, less than the cache's time to live
Moment == Advance(1)

NextFiltered ==
    \/ FillA
    \/ FundingTick
    \/ NextDay
    \/ Moment
    \/ CallGetProcessedData

SpecFiltered == Init /\ [][NextFiltered]_vars

\* The call was answered from the cache entry of a longer period, all the
\* exchange holds was booked before that entry was built, and the entry holds
\* what a fetch of its period at its time yields: upstream has not changed.
ServedFromLongerEntry ==
    /\ ret.op = "processed"
    /\ ~ret.raised
    /\ ret.requests = 0
    /\ LET cache_entry == svc_cache[cache_key(ApiKey)]
       IN  /\ cache_entry.days > ret.days
           /\ \A i \in 1..Len(logs) : logs[i].date < cache_entry.timestamp
           /\ \A i \in 1..Len(execs) : execs[i].timestamp < cache_entry.timestamp
           /\ cache_entry.data
                  = fetch_and_process_data(cache_entry.days, "none",
                                           cache_entry.timestamp).data

\* C24: a call for d days served from a valid cache entry built for D >= d
\* days returns the daily series, the trades list and the summary of a fresh
\* fetch-and-process for d days.
C24_FilteredEqualsFresh ==
    ServedFromLongerEntry =>
        LET fresh == fetch_and_process_data(ret.days, "none", now).data
        IN  /\ ret.data.daily_data = fresh.daily_data
            /\ ret.data.trades = fresh.trades
            /\ ret.data.summary = fresh.summary

\* The part of the statement the code keeps: the daily series and the summary
SeriesAndSummaryEqualFresh ==
    ServedFromLongerEntry =>
        LET fresh == fetch_and_process_data(ret.days, "none", now).data
        IN  /\ ret.data.daily_data = fresh.daily_data
            /\ ret.data.summary = fresh.summary

---------------------------------------------------------------------------
\* The open positions view and the positions it was built from

\* The open position that carries the symbol
PositionOfSymbol(positions, symbol) ==
    positions[CHOOSE i \in 1..Len(positions) : positions[i].symbol = symbol]

\* C26: every entry of the open positions view is assembled from one
\* position: the average price and the unrealized P&L shown under a symbol
\* are those of the position with that symbol, whatever the order in which
\* the batch workers complete.
C26_EnrichedFromOnePosition ==
    ret.op = "open_positions" =>
        \A i \in 1..Len(ret.enriched) :
            LET enriched_position == ret.enriched[i]
                own == PositionOfSymbol(ret.positions, enriched_position.symbol)
            IN  /\ enriched_position.size = own.size
                /\ enriched_position.avgPrice = own.price
                /\ enriched_position.unrealizedPnl
                       = calculate_unrealized_pnl(own, enriched_position.currentPrice)

---------------------------------------------------------------------------
\* routes/positions.get_positions_detailed behind its in-memory cache.
\* In SpecDetailed svc_cache holds the two module dictionaries by cache key:
\* data is the entry of _positions_cache, time that of _positions_cache_time,
\* each None while the key is not in the dictionary.  A result stands for the
\* positions, prices and P&L computed at the time it carries.

POSITIONS_CACHE_TTL == 30
MIN_REQUEST_INTERVAL == 5

positions_cache_key(api_key) == <<"positions_">> \o md5_hexdigest(api_key)

NoEntry == [data |-> None, time |-> None]

PositionsEntry(cache, key) == IF key \in DOMAIN cache THEN cache[key] ELSE NoEntry

\* _positions_cache_time.get(cache_key, 0)
CacheTimeOf(entry) == IF entry.time = None THEN 0 ELSE entry.time[1]

\* What the upstream calls of one request do: they succeed with open
\* positions, succeed with no open position, or raise
Upstream == {"positions", "empty", "raises"}

\* get_positions_detailed: the response and the dictionaries it leaves
get_positions_detailed(cache, api_key, force_refresh, upstream, current_ts) ==
    With(positions_cache_key(api_key), LAMBDA key :
    With(IF force_refresh THEN NoEntry ELSE PositionsEntry(cache, key), LAMBDA entry :
        IF ~force_refresh /\ entry.data # None
               /\ current_ts - CacheTimeOf(entry) < POSITIONS_CACHE_TTL
        THEN [kind |-> "cached", body |-> entry.data, cache |-> cache]
        ELSE IF ~force_refresh /\ current_ts - CacheTimeOf(entry) < MIN_REQUEST_INTERVAL
        THEN [kind |-> IF entry.data # None THEN "cached" ELSE "empty",
              body |-> entry.data, cache |-> cache]
        ELSE
    With([entry EXCEPT !.time = Some(current_ts)], LAMBDA requested :
        CASE upstream = "raises" ->
                 [kind |-> "error", body |-> None,
                  cache |-> Store(cache, key, requested)]
          [] upstream = "empty" ->
                 [kind |-> "empty", body |-> None,
                  cache |-> Store(cache, key, requested)]
          [] OTHER ->
                 With([computed_at |-> current_ts], LAMBDA result :
                     [kind |-> "fresh", body |-> Some(result),
                      cache |-> Store(cache, key,
                                      [data |-> Some(result),
                                       time |-> Some(current_ts)])]))))

GetPositionsDetailed(force_refresh, upstream) ==
    /\ \E r \in {get_positions_detailed(svc_cache, KeyStem, force_refresh,
                                        upstream, now)} :
           /\ ret' = [op |-> "detailed", force_refresh |-> force_refresh,
                      upstream |-> upstream, kind |-> r.kind, body |-> r.body]
           /\ svc_cache' = r.cache
    /\ UNCHANGED <<exchange, steps, last_raw_logs>>

RequestDetailed ==
    \E force_refresh \in BOOLEAN, upstream \in Upstream :
        GetPositionsDetailed(force_refresh, upstream)

\* Time passes between two requests
Pause ==
    \E dt \in {1, MIN_REQUEST_INTERVAL, POSITIONS_CACHE_TTL - 1, POSITIONS_CACHE_TTL} :
        Advance(dt)

NextDetailed ==
    \/ RequestDetailed
    \/ Pause

SpecDetailed == Init /\ [][NextDetailed]_vars

\* C27: a request without force_refresh is never answered with cached
\* positions data computed more than POSITIONS_CACHE_TTL seconds earlier, and
\* a request with force_refresh is never answered from the cache.
C27_CachedDataIsYoung ==
    (ret.op = "detailed" /\ ret.kind = "cached") =>
        /\ ~ret.force_refresh
        /\ now - ret.body[1].computed_at <= POSITIONS_CACHE_TTL

\* The half of the statement about force_refresh
ForceRefreshSkipsCache ==
    (ret.op = "detailed" /\ ret.force_refresh) => ret.kind # "cached"

---------------------------------------------------------------------------
\* kraken_client.get_execution_events, request by request, against a server
\* that answers as it likes

MaxFetched == 4

\* The continuation tokens the server hands out; the empty string is one
ContinuationTokens == {<<>>, <<"t", "1">>, <<"t", "2">>}

\* What one request can come back with: make_request raising, a falsy body,
\* or a body with 0..PageLimit executions and a continuation token or none
ExecutionAnswers ==
    {[kind |-> k, executions |-> 0, continuationToken |-> None] : k \in {"raise", "empty"}}
    \cup {[kind |-> "page", executions |-> n, continuationToken |-> token] :
            n \in 0..PageLimit,
            token \in {None} \cup {Some(t) : t \in ContinuationTokens}}

\* `if continuation_token:` of a token that may be None or the empty string
Truthy(token) == token # None /\ token[1] # <<>>

\* all_executions is kept by its length, MaxFetched standing for that many
\* executions or more
NewExecutionsCall(since_ts, before_ts) ==
    [pc |-> "request", since |-> since_ts, before |-> before_ts,
     all_executions |-> 0, continuation_token |-> None, query |-> None]

\* One iteration of the loop: the request and the handling of its answer
ExecutionsIteration(call, answer) ==
    LET c == [call EXCEPT !.query =
                 Some([since |-> call.since, before |-> call.before,
                       continuation_token |->
                           IF Truthy(call.continuation_token)
                           THEN call.continuation_token ELSE None])]
    IN  IF answer.kind = "raise" THEN [c EXCEPT !.pc = "raised"]
        ELSE IF answer.kind = "empty" \/ answer.executions = 0
        THEN [c EXCEPT !.pc = "returned"]
        ELSE [c EXCEPT !.all_executions =
                           IF @ + answer.executions > MaxFetched THEN MaxFetched
                           ELSE @ + answer.executions,
                       !.continuation_token = answer.continuationToken,
                       !.pc = IF Truthy(answer.continuationToken)
                              THEN "request" ELSE "returned"]

GetExecutionEvents ==
    /\ ret.op = "none"
    /\ \E days \in 1..MaxDays :
           ret' = [op |-> "executions",
                   call |-> NewExecutionsCall(now - days * SecondsPerDay, now)]
    /\ UNCHANGED <<exchange, steps, service>>

ExecutionsRequest ==
    /\ ret.op = "executions" /\ ret.call.pc = "request"
    /\ \E answer \in ExecutionAnswers :
           ret' = [ret EXCEPT !.call = ExecutionsIteration(ret.call, answer)]
    /\ UNCHANGED <<exchange, steps, service>>

NextExecutions == \/ GetExecutionEvents \/ ExecutionsRequest

SpecExecutions == Init /\ [][NextExecutions]_vars

\* The loop runs on while it has a request to send
SpecExecutionsFair == SpecExecutions /\ WF_vars(ExecutionsRequest)

\* C28: whatever the server answers, a call of get_execution_events comes to
\* an end: it returns or raises.
C28_ExecutionEventsTerminates ==
    (ret.op = "executions") ~> (ret.op = "executions" /\ ret.call.pc # "request")

---------------------------------------------------------------------------
\* The executions the resolver undoes, against those the lookback holds

\* The executions of the symbol inside the lookback, each once, newest first
InLookback ==
    SortNewestFirst(SymbolExecutions(
        ExecutionsPage(now - (MAX_LOOKBACK_DAYS \div CHUNK_DAYS) * CHUNK_DAYS * SecondsPerDay,
                       now), ret.symbol))

\* The executions the walk has undone when it ends: those the windows serve,
\* up to the first that leaves the net position below epsilon
Undone ==
    LET flat == {n \in 1..Len(Served) :
                    Abs(ret.size - SumSeq([i \in 1..n |-> Served[i][2]])) < EPSILON}
    IN  IF flat = {} THEN Served
        ELSE SubSeq(Served, 1, CHOOSE n \in flat : \A m \in flat : n <= m)

IsPrefix(s, t) == Len(s) <= Len(t) /\ SubSeq(t, 1, Len(s)) = s

\* C29: a call of the resolver for an open position undoes each execution of
\* the symbol inside the lookback once, from the newest on, also one stamped
\* with the boundary of two windows; and the time it returns is not later
\* than now.
C29_EachExecutionUndoneOnce ==
    (ret.op = "open_time" /\ ret.size = NetSize(execs, ret.symbol)) =>
        /\ IsPrefix(Undone, InLookback)
        /\ ret.ts <= now

---------------------------------------------------------------------------
\* The logs get_account_logs returns, against those the exchange holds

\* C30: when the exchange holds fewer than max_iterations * limit entries in
\* the window and serves them newest first, get_account_logs returns each of
\* them once: none is lost and none repeated where one page ends and the
\* next begins, also when entries share the date of a page's oldest record.
C30_EachLogReturnedOnce ==
    (Aggregated /\ Len(HeldLogs(WindowStart)) < max_iterations * PageLimit) =>
        SameEntries(ret.fed, HeldLogs(WindowStart))

====
